---- MODULE Spec2Model ----
(***************************************************************************)
(* Model of the BPMNEnv-aware plugin core: the task-kind service, the      *)
(* extension (metadata) service and the SimpleBindingHandler that keeps    *)
(* the classification of message flows in step with the kinds of the      *)
(* tasks they join.                                                        *)
(***************************************************************************)
EXTENDS Integers, Sequences, FiniteSets, TLC

VARIABLES ext, source, target, incoming, outgoing, live,
          updateTimeout, processingConnections, graceTimers,
          lastRun, burst, probe

vars == <<ext, source, target, incoming, outgoing, live,
          updateTimeout, processingConnections, graceTimers,
          lastRun, burst, probe>>

(***************************************************************************)
(* Names of the program: kind keys, extension types, element types.        *)
(***************************************************************************)
Null == "null"
NoElem == "none"

MOVEMENT == "movement"
BINDING == "binding"
UNBINDING == "unbinding"
TASK_TYPE_KEYS == {MOVEMENT, BINDING, UNBINDING}

TYPE == "space:Type"
DESTINATION == "space:Destination"
PARTICIPANT1 == "space:Participant1"
PARTICIPANT2 == "space:Participant2"
TASK_ASSIGNMENT == "space:TaskAssignment"
TASK_ASSIGNMENT_REACHED == "space:TaskAssignmentReached"
\* EXTENSION_TYPES has no BINDING member: reading it yields undefined
EXT_BINDING == "undefined"
EXTENSION_TYPES == {TYPE, DESTINATION, PARTICIPANT1, PARTICIPANT2,
                    TASK_ASSIGNMENT, TASK_ASSIGNMENT_REACHED}

DefaultDestination == "${destination}"

\* variant: no kind lists the assignment entries
ConfigExtensionElements_noAssignments(key) ==
  IF key = MOVEMENT THEN {TYPE, DESTINATION} ELSE {TYPE}

ConfigExtensionElements(key) ==
  IF key = MOVEMENT
    THEN {TYPE, DESTINATION, TASK_ASSIGNMENT, TASK_ASSIGNMENT_REACHED}
    ELSE {TYPE, TASK_ASSIGNMENT, TASK_ASSIGNMENT_REACHED}

ConfigDefaultDestination(key) == IF key = MOVEMENT THEN DefaultDestination ELSE ""

\* TASK_TYPES_CONFIG is an object literal: besides its three own keys, a lookup
\* finds the members every object inherits, which carry no extensionElements
ObjectPrototypeKeys == {"constructor", "toString"}

\* getTaskConfig(key) is truthy
HasTaskConfig(key) == key \in TASK_TYPE_KEYS \cup ObjectPrototypeKeys

\* config.extensionElements is an array
HasExtensionElements(key) == key \in TASK_TYPE_KEYS

(***************************************************************************)
(* The diagram: two pools, a task in each, a task nested too deep for its  *)
(* pool to be found, two message flows and one sequence flow.              *)
(***************************************************************************)
\* t1 and t2 change kind; t3 keeps the kind it was imported with
TypedTasks == {"t1", "t2"}
Tasks == {"t1", "t2", "t3"}
Pools == {"P1", "P2"}
SubProcesses == {"S1", "S2", "S3", "S4", "S5", "S6", "S7", "S8", "S9"}
Conns == {"c1", "c2"}
SeqFlows == {"sf1"}
Nodes == Tasks \cup Pools \cup SubProcesses
RegistryOrder == <<"c1", "sf1", "c2">>

ElType(e) ==
  CASE e \in Tasks -> "bpmn:Task"
    [] e \in Pools -> "bpmn:Participant"
    [] e \in SubProcesses -> "bpmn:SubProcess"
    [] e \in Conns -> "bpmn:MessageFlow"
    [] e \in SeqFlows -> "bpmn:SequenceFlow"
    [] OTHER -> Null

Parent(e) ==
  CASE e = "t1" -> "P1"
    [] e = "t2" -> "P2"
    [] e = "t3" -> "S9"
    [] e = "S9" -> "S8"
    [] e = "S8" -> "S7"
    [] e = "S7" -> "S6"
    [] e = "S6" -> "S5"
    [] e = "S5" -> "S4"
    [] e = "S4" -> "S3"
    [] e = "S3" -> "S2"
    [] e = "S2" -> "S1"
    [] e = "S1" -> "P2"
    [] OTHER -> NoElem

MaxDepth == 10

RECURSIVE ParticipantWalk(_, _)
ParticipantWalk(current, depth) ==
  IF current = NoElem \/ depth >= MaxDepth THEN Null
  ELSE IF ElType(current) = "bpmn:Participant" THEN current
  ELSE ParticipantWalk(Parent(current), depth + 1)

getParticipantId(element) == ParticipantWalk(element, 0)

(***************************************************************************)
(* Extension elements of a business object: the container may be absent;   *)
(* its values are an ordered list of [type, body] entries.                 *)
(***************************************************************************)
Entry(t, b) == [type |-> t, body |-> b]
NoExt == [present |-> FALSE, values |-> <<>>]

\* String.prototype.toLowerCase on the strings that occur as bodies
ToLowerCase(s) ==
  CASE s = "Binding" -> "binding"
    [] s = "Unbinding" -> "unbinding"
    [] s = "Movement" -> "movement"
    [] OTHER -> s

RECURSIVE Filter(_, _)
Filter(s, keepTypes) ==
  IF s = <<>> THEN <<>>
  ELSE IF Head(s).type \in keepTypes
         THEN <<Head(s)>> \o Filter(Tail(s), keepTypes)
         ELSE Filter(Tail(s), keepTypes)

RECURSIVE FindIndex(_, _, _)
FindIndex(s, type, i) ==
  IF i > Len(s) THEN 0
  ELSE IF s[i].type = type THEN i
  ELSE FindIndex(s, type, i + 1)

getExtensionValues(bo) == IF bo.present THEN bo.values ELSE <<>>

\* body of the first entry of the given type, Null when there is none
findExtensionBody(bo, type) ==
  LET i == FindIndex(getExtensionValues(bo), type, 1)
  IN IF i = 0 THEN Null ELSE getExtensionValues(bo)[i].body

hasExtension(bo, type) == FindIndex(getExtensionValues(bo), type, 1) # 0

getText(body) == IF body = Null THEN "" ELSE body

getCurrentType(bo) ==
  LET b == findExtensionBody(bo, TYPE)
  IN IF b = Null \/ ToLowerCase(b) = "" THEN "" ELSE ToLowerCase(b)

getDestination(bo) == getText(findExtensionBody(bo, DESTINATION))
getBinding(bo) == getText(findExtensionBody(bo, EXT_BINDING))

ensureExtensionElements(bo) ==
  IF bo.present THEN bo ELSE [present |-> TRUE, values |-> <<>>]

\* variant: always creates a new entry
setExtension_append(bo, type, value) ==
  LET b == ensureExtensionElements(bo)
  IN [b EXCEPT !.values = Append(b.values, Entry(type, value))]

setExtension(bo, type, value) ==
  LET b == ensureExtensionElements(bo)
      i == FindIndex(b.values, type, 1)
  IN IF i = 0
       THEN [b EXCEPT !.values = Append(b.values, Entry(type, value))]
       ELSE [b EXCEPT !.values[i].body = value]

\* variant: empties the list as soon as one entry is selected
removeExtensions_all(bo, keepTypes) ==
  LET existing == getExtensionValues(bo)
      keep == Filter(existing, keepTypes)
  IN IF Len(keep) # Len(existing) THEN [bo EXCEPT !.values = <<>>] ELSE bo

\* removeExtensions with the predicate "type is not in keepTypes"
removeExtensions(bo, keepTypes) ==
  LET existing == getExtensionValues(bo)
      keep == Filter(existing, keepTypes)
  IN IF Len(keep) # Len(existing) THEN [bo EXCEPT !.values = keep] ELSE bo

\* what a call of removeExtensions evaluates to: the function has no return
\* statement on either path
removeExtensionsReturn(bo, keepTypes) ==
  LET existing == getExtensionValues(bo)
      keep == Filter(existing, keepTypes)
  IN IF Len(keep) # Len(existing) THEN "undefined" ELSE "undefined"

\* the binding entry of a task, as the properties panel names it
SPACE_BINDING == "space:Binding"

AllTypes == EXTENSION_TYPES \cup {EXT_BINDING, SPACE_BINDING, "other:Doc"}

clearCustomExtensions(bo) == removeExtensions(bo, AllTypes \ EXTENSION_TYPES)


(***************************************************************************)
(* TaskTypeService: setTaskType and clearTaskType on a task's business     *)
(* object.                                                                 *)
(***************************************************************************)
cleanupIncompatibleExtensions_lenient(bo, key) ==
  removeExtensions(bo, {TYPE, DESTINATION, SPACE_BINDING} \cup ConfigExtensionElements(key))

cleanupIncompatibleExtensions(bo, key) ==
  removeExtensions(bo, {TYPE} \cup ConfigExtensionElements(key))

initializeExtensions_none(bo, key) == bo

initializeExtensions(bo, key) ==
  LET b1 == IF DESTINATION \in ConfigExtensionElements(key)
                 /\ getDestination(bo) = ""
                 /\ ConfigDefaultDestination(key) # ""
              THEN setExtension(bo, DESTINATION, ConfigDefaultDestination(key))
              ELSE bo
  IN IF EXT_BINDING \in ConfigExtensionElements(key) /\ getBinding(b1) = ""
       THEN setExtension(b1, EXT_BINDING, "")
       ELSE b1

setTaskTypeBo(bo, key) ==
  initializeExtensions(cleanupIncompatibleExtensions(setExtension(bo, TYPE, key), key), key)

(***************************************************************************)
(* SimpleBindingHandler: pure helpers on a connection.                     *)
(***************************************************************************)
OrNull(b) == IF b = Null \/ b = "" THEN Null ELSE b

getStoredType(bo) == OrNull(findExtensionBody(bo, TYPE))
getStoredParticipant1(bo) == OrNull(findExtensionBody(bo, PARTICIPANT1))
getStoredParticipant2(bo) == OrNull(findExtensionBody(bo, PARTICIPANT2))

hasConnectionData(bo) ==
  \E i \in 1..Len(getExtensionValues(bo)) :
    /\ getExtensionValues(bo)[i].type = TYPE
    /\ getExtensionValues(bo)[i].body \in {BINDING, UNBINDING}

clearConnectionData_typeOnly(bo) ==
  IF ~bo.present THEN bo
  ELSE [bo EXCEPT !.values = Filter(bo.values, AllTypes \ {TYPE})]

clearConnectionData(bo) ==
  IF ~bo.present THEN bo
  ELSE [bo EXCEPT !.values =
          Filter(bo.values, AllTypes \ {TYPE, PARTICIPANT1, PARTICIPANT2})]

determineConnectionType_either(src, tgt, e) ==
  IF ElType(src) = Null \/ ElType(tgt) = Null THEN Null
  ELSE IF ElType(src) # "bpmn:Task" \/ ElType(tgt) # "bpmn:Task" THEN Null
  ELSE IF getCurrentType(e[src]) = BINDING \/ getCurrentType(e[tgt]) = BINDING
         THEN BINDING
  ELSE IF getCurrentType(e[src]) = UNBINDING \/ getCurrentType(e[tgt]) = UNBINDING
         THEN UNBINDING
  ELSE Null

determineConnectionType(src, tgt, e) ==
  IF ElType(src) = Null \/ ElType(tgt) = Null THEN Null
  ELSE IF ElType(src) # "bpmn:Task" \/ ElType(tgt) # "bpmn:Task" THEN Null
  ELSE IF getCurrentType(e[src]) = BINDING /\ getCurrentType(e[tgt]) = BINDING
         THEN BINDING
  ELSE IF getCurrentType(e[src]) = UNBINDING /\ getCurrentType(e[tgt]) = UNBINDING
         THEN UNBINDING
  ELSE Null

needsUpdate_typeOnly(c, src, tgt, e) ==
  getStoredType(e[c]) # determineConnectionType(src, tgt, e)

needsUpdate_always(c, src, tgt, e) == TRUE

needsUpdate(c, src, tgt, e) ==
  \/ getStoredType(e[c]) # determineConnectionType(src, tgt, e)
  \/ getStoredParticipant1(e[c]) # getParticipantId(src)
  \/ getStoredParticipant2(e[c]) # getParticipantId(tgt)

(***************************************************************************)
(* Reconciliation.  Each operator yields the connection's business object  *)
(* after the call and the number of modeling.updateModdleProperties calls  *)
(* it issued.                                                              *)
(***************************************************************************)
Outcome(bo, writes) == [bo |-> bo, writes |-> writes]

\* variant: the list is replaced by the three new entries
addConnectionData_fresh(bo, connectionType, src, tgt) ==
  IF getParticipantId(src) = Null \/ getParticipantId(tgt) = Null
    THEN Outcome(bo, 0)
    ELSE Outcome([present |-> TRUE,
                  values |-> << Entry(TYPE, connectionType),
                                Entry(PARTICIPANT1, getParticipantId(src)),
                                Entry(PARTICIPANT2, getParticipantId(tgt)) >>], 1)

addConnectionData(bo, connectionType, src, tgt) ==
  IF getParticipantId(src) = Null \/ getParticipantId(tgt) = Null
    THEN Outcome(bo, 0)
    ELSE LET b == clearConnectionData(ensureExtensionElements(bo))
         IN Outcome([b EXCEPT !.values = b.values \o
                       << Entry(TYPE, connectionType),
                          Entry(PARTICIPANT1, getParticipantId(src)),
                          Entry(PARTICIPANT2, getParticipantId(tgt)) >>], 1)

clearAndUpdate(bo) == Outcome(clearConnectionData(bo), 1)

checkAndAddConnectionData(c, src, tgt, e) ==
  IF ~needsUpdate(c, src, tgt, e) THEN Outcome(e[c], 0)
  ELSE IF determineConnectionType(src, tgt, e) # Null
         THEN addConnectionData(e[c], determineConnectionType(src, tgt, e), src, tgt)
  ELSE IF hasConnectionData(e[c]) THEN clearAndUpdate(e[c])
  ELSE Outcome(e[c], 0)

updateConnectionData(c, src, tgt, e) ==
  checkAndAddConnectionData(c, src, tgt, [e EXCEPT ![c] = clearConnectionData(e[c])])

(***************************************************************************)
(* The scheduler: one shared debounce timer and the in-flight set.         *)
(***************************************************************************)
NoTimer == [conn |-> NoElem, force |-> FALSE]

scheduleUpdate_dropForced(conn, force, tm, proc) ==
  IF conn = NoElem THEN tm
  ELSE IF conn \in proc THEN tm
  ELSE [conn |-> conn, force |-> force]

scheduleUpdate(conn, force, tm, proc) ==
  IF conn = NoElem THEN tm
  ELSE IF conn \in proc /\ ~force THEN tm
  ELSE [conn |-> conn, force |-> force]

RECURSIVE scheduleEach(_, _, _)
scheduleEach(flows, tm, proc) ==
  IF flows = <<>> THEN tm
  ELSE scheduleEach(Tail(flows), scheduleUpdate(Head(flows), FALSE, tm, proc), proc)

RECURSIVE MessageFlowsOf(_)
MessageFlowsOf(s) ==
  IF s = <<>> THEN <<>>
  ELSE IF ElType(Head(s)) = "bpmn:MessageFlow"
         THEN <<Head(s)>> \o MessageFlowsOf(Tail(s))
         ELSE MessageFlowsOf(Tail(s))

connectedFlows(el, inc, out) == MessageFlowsOf(inc[el] \o out[el])

onElementChanged_flowsToo(el, tm, proc, inc, out) ==
  IF ElType(el) = "bpmn:Task"
    THEN scheduleEach(connectedFlows(el, inc, out), tm, proc)
  ELSE IF ElType(el) = "bpmn:MessageFlow"
    THEN [conn |-> el, force |-> TRUE]
  ELSE tm

\* the element.changed listener
onElementChanged(el, tm, proc, inc, out) ==
  IF ElType(el) = "bpmn:Task"
    THEN scheduleEach(connectedFlows(el, inc, out), tm, proc)
    ELSE tm

\* the Model Mutator emits one change notification for the updated element per write
RECURSIVE notifyWrites(_, _, _, _, _, _)
notifyWrites(n, el, tm, proc, inc, out) ==
  IF n = 0 THEN tm
  ELSE notifyWrites(n - 1, el, onElementChanged(el, tm, proc, inc, out), proc, inc, out)


(***************************************************************************)
(* State of the running editor.                                            *)
(*   ext                   extensionElements of every task and flow        *)
(*   source, target        the two ends of every message flow              *)
(*   incoming, outgoing    the flows attached to a task, in attach order   *)
(*   live                  the message flows present in the registry       *)
(*   updateTimeout         the pending debounce timer (connection, force)  *)
(*   processingConnections the in-flight set                               *)
(*   graceTimers           pending 100 ms timers that release a connection,*)
(*                         oldest first; age counts the debounce timers    *)
(*                         (50 ms each, one at a time) fired since         *)
(*   lastRun               what the latest processConnection call did      *)
(*   burst                 the flows the latest notification scheduled and *)
(*                         that have not been processed since              *)
(*   probe                 the value returned by determineConnectionType   *)
(***************************************************************************)
NoRun == [conn |-> NoElem, forced |-> FALSE, before |-> NoExt, writes |-> 0,
          wasInFlight |-> FALSE]
NoBurst == [cause |-> "none", flows |-> {}]

RECURSIVE Without(_, _)
Without(s, x) ==
  IF s = <<>> THEN <<>>
  ELSE IF Head(s) = x THEN Without(Tail(s), x)
  ELSE <<Head(s)>> \o Without(Tail(s), x)

RECURSIVE LiveFlows(_, _)
LiveFlows(s, l) ==
  IF s = <<>> THEN <<>>
  ELSE IF Head(s) \in l THEN <<Head(s)>> \o LiveFlows(Tail(s), l)
  ELSE LiveFlows(Tail(s), l)

Range(s) == {s[i] : i \in 1..Len(s)}

Init ==
  /\ ext = [e \in Tasks \cup Conns |->
              IF e = "t3" THEN [present |-> TRUE, values |-> <<Entry(TYPE, "Binding")>>]
              ELSE NoExt]
  /\ source = [c \in Conns |-> "t1"]
  /\ target = [c \in Conns |-> "t2"]
  /\ \E l \in {{"c1"}, Conns} :
       /\ live = l
       /\ outgoing = [t \in Tasks |->
            CASE t = "t1" -> LiveFlows(<<"c1", "c2">>, l)
              [] t = "t2" -> <<"sf1">>
              [] OTHER -> <<>>]
       /\ incoming = [t \in Tasks |->
            CASE t = "t2" -> LiveFlows(<<"c1", "c2">>, l)
              [] t = "t3" -> <<"sf1">>
              [] OTHER -> <<>>]
  /\ updateTimeout = NoTimer
  /\ processingConnections = {}
  /\ graceTimers = <<>>
  /\ lastRun = NoRun
  /\ burst = NoBurst
  /\ probe = "unset"

diagramUnchanged == UNCHANGED <<source, target, incoming, outgoing, live>>

\* what a task notification owes: its attached flows, when none of them is in flight
TaskBurst(t) ==
  IF Range(connectedFlows(t, incoming, outgoing)) \cap processingConnections = {}
    THEN [cause |-> "task", flows |-> Range(connectedFlows(t, incoming, outgoing))]
    ELSE NoBurst

(***************************************************************************)
(* External operations.                                                    *)
(***************************************************************************)
SetTaskType(t, key) ==
  /\ HasTaskConfig(key)
  /\ ext' = [ext EXCEPT ![t] = setTaskTypeBo(ext[t], key)]
  /\ updateTimeout' = onElementChanged(t, updateTimeout, processingConnections,
                                        incoming, outgoing)
  /\ burst' = TaskBurst(t)
  /\ lastRun' = NoRun
  /\ diagramUnchanged
  /\ UNCHANGED <<processingConnections, graceTimers, probe>>

ClearTaskType(t) ==
  /\ ext' = [ext EXCEPT ![t] = clearCustomExtensions(ext[t])]
  /\ updateTimeout' = onElementChanged(t, updateTimeout, processingConnections,
                                        incoming, outgoing)
  /\ burst' = TaskBurst(t)
  /\ lastRun' = NoRun
  /\ diagramUnchanged
  /\ UNCHANGED <<processingConnections, graceTimers, probe>>

\* connection.added for a message flow t1 -> t2 drawn by the user
ConnectionAdded(c) ==
  /\ c \notin live
  /\ live' = live \cup {c}
  /\ outgoing' = [outgoing EXCEPT ![source[c]] = Append(@, c)]
  /\ incoming' = [incoming EXCEPT ![target[c]] = Append(@, c)]
  /\ updateTimeout' = IF ElType(c) = "bpmn:MessageFlow"
                        THEN scheduleUpdate(c, FALSE, updateTimeout, processingConnections)
                        ELSE updateTimeout
  /\ burst' = NoBurst
  /\ lastRun' = NoRun
  /\ UNCHANGED <<ext, source, target, processingConnections, graceTimers, probe>>

\* commandStack.connection.reconnect.executed after the host rewired one end
ReconnectTarget(c, n) ==
  /\ c \in live
  /\ n # target[c]
  /\ target' = [target EXCEPT ![c] = n]
  /\ incoming' = [t \in Tasks |->
        IF t = n THEN Append(incoming[t], c)
        ELSE IF t = target[c] THEN Without(incoming[t], c)
        ELSE incoming[t]]
  /\ updateTimeout' = IF ElType(c) = "bpmn:MessageFlow"
                        THEN scheduleUpdate(c, TRUE, updateTimeout, processingConnections)
                        ELSE updateTimeout
  /\ burst' = NoBurst
  /\ lastRun' = NoRun
  /\ UNCHANGED <<ext, source, outgoing, live, processingConnections, graceTimers, probe>>

ReconnectSource(c, n) ==
  /\ c \in live
  /\ n # source[c]
  /\ source' = [source EXCEPT ![c] = n]
  /\ outgoing' = [t \in Tasks |->
        IF t = n THEN Append(outgoing[t], c)
        ELSE IF t = source[c] THEN Without(outgoing[t], c)
        ELSE outgoing[t]]
  /\ updateTimeout' = IF ElType(c) = "bpmn:MessageFlow"
                        THEN scheduleUpdate(c, TRUE, updateTimeout, processingConnections)
                        ELSE updateTimeout
  /\ burst' = NoBurst
  /\ lastRun' = NoRun
  /\ UNCHANGED <<ext, target, incoming, live, processingConnections, graceTimers, probe>>

ImportDone ==
  /\ updateTimeout' = scheduleEach(MessageFlowsOf(LiveFlows(RegistryOrder, live \cup SeqFlows)),
                                   updateTimeout, processingConnections)
  /\ burst' = [cause |-> "import", flows |-> live]
  /\ lastRun' = NoRun
  /\ diagramUnchanged
  /\ UNCHANGED <<ext, processingConnections, graceTimers, probe>>

(***************************************************************************)
(* Timer callbacks.                                                        *)
(***************************************************************************)
processConnectionOutcome(c, force, e) ==
  IF force THEN updateConnectionData(c, source[c], target[c], e)
  ELSE checkAndAddConnectionData(c, source[c], target[c], e)

\* the debounce timer fires: processConnection(connection, forceUpdate).
\* Two debounce timers in a row take at least 100 ms, so a grace timer that has
\* already seen one fire expires before the next.
DebounceFire ==
  /\ updateTimeout # NoTimer
  /\ \A i \in 1..Len(graceTimers) : graceTimers[i].age = 0
  /\ LET c == updateTimeout.conn
         out == processConnectionOutcome(c, updateTimeout.force, ext)
     IN /\ ext' = [ext EXCEPT ![c] = out.bo]
        /\ processingConnections' = processingConnections \cup {c}
        /\ updateTimeout' = notifyWrites(out.writes, c, NoTimer,
                                         processingConnections \cup {c}, incoming, outgoing)
        /\ graceTimers' = Append([i \in 1..Len(graceTimers) |->
                                    [graceTimers[i] EXCEPT !.age = 1]],
                                 [conn |-> c, age |-> 0])
        /\ lastRun' = [conn |-> c, forced |-> updateTimeout.force, before |-> ext[c],
                       writes |-> out.writes, wasInFlight |-> c \in processingConnections]
        /\ burst' = [burst EXCEPT !.flows = @ \ {c}]
  /\ diagramUnchanged
  /\ UNCHANGED probe

\* the oldest grace timer fires: the connection leaves the in-flight set
GraceFire ==
  /\ graceTimers # <<>>
  /\ processingConnections' = processingConnections \ {Head(graceTimers).conn}
  /\ graceTimers' = Tail(graceTimers)
  /\ lastRun' = NoRun
  /\ diagramUnchanged
  /\ UNCHANGED <<ext, updateTimeout, burst, probe>>

Next ==
  \/ \E t \in TypedTasks, key \in TASK_TYPE_KEYS : SetTaskType(t, key)
  \/ \E t \in TypedTasks : ClearTaskType(t)
  \/ \E c \in Conns : ConnectionAdded(c)
  \/ \E n \in {"t2", "t3"} : ReconnectTarget("c1", n)
  \/ \E n \in {"t1", "t2"} : ReconnectSource("c1", n)
  \/ ImportDone
  \/ DebounceFire
  \/ GraceFire

Spec == Init /\ [][Next]_vars


(***************************************************************************)
(* determineConnectionType applied to drawn endpoints and kinds.           *)
(***************************************************************************)
KindBodies == {"", MOVEMENT, BINDING, UNBINDING, "Binding", "Unbinding"}
TaskBo(body) ==
  IF body = "" THEN NoExt ELSE [present |-> TRUE, values |-> <<Entry(TYPE, body)>>]
EndpointChoices == {"t1", "t2", "t3", "P1", "S1", NoElem}
StoredChoices ==
  {NoExt,
   [present |-> TRUE, values |-> <<Entry(TYPE, BINDING), Entry(PARTICIPANT1, "P1"),
                                   Entry(PARTICIPANT2, "P2")>>]}

InitClassify ==
  /\ \E b1 \in KindBodies, b2 \in KindBodies, st \in StoredChoices :
       ext = [e \in Tasks \cup Conns |->
                CASE e = "t1" -> TaskBo(b1)
                  [] e = "t2" -> TaskBo(b2)
                  [] e = "t3" -> TaskBo("Binding")
                  [] e = "c1" -> st
                  [] OTHER -> NoExt]
  /\ \E s \in EndpointChoices, t \in EndpointChoices :
       /\ source = [c \in Conns |-> IF c = "c1" THEN s ELSE "t1"]
       /\ target = [c \in Conns |-> IF c = "c1" THEN t ELSE "t2"]
  /\ live = Conns
  /\ outgoing = [t \in Tasks |-> <<>>]
  /\ incoming = [t \in Tasks |-> <<>>]
  /\ updateTimeout = NoTimer
  /\ processingConnections = {}
  /\ graceTimers = <<>>
  /\ lastRun = NoRun
  /\ burst = NoBurst
  /\ probe = "unset"

Classify(c) ==
  /\ probe = "unset"
  /\ probe' = determineConnectionType(source[c], target[c], ext)
  /\ UNCHANGED <<ext, source, target, incoming, outgoing, live, updateTimeout,
                 processingConnections, graceTimers, lastRun, burst>>

NextClassify == Classify("c1")

SpecClassify == InitClassify /\ [][NextClassify]_vars

(***************************************************************************)
(* Vocabulary of the properties.                                           *)
(***************************************************************************)
StoredTriple(bo) ==
  <<getStoredType(bo), getStoredParticipant1(bo), getStoredParticipant2(bo)>>

NoTriple == <<Null, Null, Null>>

HasAnyClassificationEntry(bo) ==
  \E i \in 1..Len(getExtensionValues(bo)) :
    getExtensionValues(bo)[i].type \in {TYPE, PARTICIPANT1, PARTICIPANT2}

KindOf(n) == IF n \in Tasks THEN getCurrentType(ext[n]) ELSE ""

\* the classification the endpoints call for
Desired(c) ==
  IF source[c] \notin Tasks \/ target[c] \notin Tasks THEN Null
  ELSE IF KindOf(source[c]) = BINDING /\ KindOf(target[c]) = BINDING THEN BINDING
  ELSE IF KindOf(source[c]) = UNBINDING /\ KindOf(target[c]) = UNBINDING THEN UNBINDING
  ELSE Null

RECURSIVE ContainingPool(_)
ContainingPool(n) ==
  IF n = NoElem THEN Null
  ELSE IF n \in Pools THEN n
  ELSE ContainingPool(Parent(n))

PoolOf(n) == getParticipantId(n)
Resolvable(c) == PoolOf(source[c]) # Null /\ PoolOf(target[c]) # Null

DesiredTriple(c) ==
  IF Desired(c) = Null THEN NoTriple
  ELSE <<Desired(c), ContainingPool(source[c]), ContainingPool(target[c])>>

Ran(c) == lastRun.conn = c
Settled == updateTimeout = NoTimer /\ processingConnections = {}


(***************************************************************************)
(* Properties.                                                             *)
(***************************************************************************)

\* C1: once no debounce timer is pending and no connection is in flight, the
\* stored classification of every message flow (whose endpoint pools can be
\* found) is the one its endpoints' current kinds call for.
C1_ClassificationSettled ==
  Settled => \A c \in live : Resolvable(c) => getStoredType(ext[c]) = Desired(c)

\* C2: determineConnectionType depends on the two endpoints only: Null when an
\* endpoint is missing or not a task, Binding when both kinds are Binding,
\* Unbinding when both are Unbinding, Null for every other pair of kinds.
C2_ClassifyByEndpoints ==
  probe # "unset" => probe = Desired("c1")

C2_Witness ==
  /\ probe = Null
  /\ source["c1"] = "t1" /\ target["c1"] = "t2"
  /\ KindOf("t1") = BINDING /\ KindOf("t2") = UNBINDING
  /\ hasConnectionData(ext["c1"])

\* C3: a non-forced reconcile of a connection that stores Binding or Unbinding
\* while its endpoints call for no classification removes the type entry and
\* both pool-reference entries.
C3_StaleFullyRemoved ==
  \A c \in Conns :
    (Ran(c) /\ ~lastRun.forced /\ hasConnectionData(lastRun.before) /\ Desired(c) = Null)
      => ~HasAnyClassificationEntry(ext[c])

C3_Witness ==
  /\ Ran("c1") /\ ~lastRun.forced /\ hasConnectionData(lastRun.before)
  /\ Desired("c1") = Null /\ lastRun.writes = 1
  /\ ~HasAnyClassificationEntry(ext["c1"])

\* C4: a reconcile that writes leaves the stored type, first and second pool
\* reference equal to the classification of the current endpoints and the
\* pools of the current source and target; a non-forced reconcile that finds
\* any of the three different from that (the pools being found) rewrites them.
C4_WrittenMatchesEndpoints ==
  \A c \in Conns :
    (Ran(c) /\ (lastRun.writes > 0
                  \/ (~lastRun.forced /\ StoredTriple(lastRun.before) # DesiredTriple(c)
                        /\ (Desired(c) # Null => Resolvable(c)))))
      => StoredTriple(ext[c]) = DesiredTriple(c)

C4_Witness ==
  /\ Ran("c1") /\ ~lastRun.forced /\ lastRun.writes = 1
  /\ StoredTriple(lastRun.before) = <<BINDING, "P1", "P2">>
  /\ StoredTriple(ext["c1"]) = <<BINDING, "P2", "P2">>

\* C5: a non-forced reconcile of a connection whose stored classification and
\* pool references already equal the desired ones (nothing stored when none is
\* desired) issues no update and leaves the connection's metadata unchanged.
C5_ConsistentIsNoOp ==
  \A c \in Conns :
    (Ran(c) /\ ~lastRun.forced /\ StoredTriple(lastRun.before) = DesiredTriple(c))
      => (lastRun.writes = 0 /\ ext[c] = lastRun.before)

C5_Witness ==
  /\ Ran("c1") /\ ~lastRun.forced
  /\ StoredTriple(lastRun.before) = <<BINDING, "P1", "P2">>
  /\ DesiredTriple("c1") = <<BINDING, "P1", "P2">>
  /\ lastRun.writes = 0

\* C6: the change notification emitted by a reconciliation's own write does not
\* schedule another reconciliation: when processConnection returns, no debounce
\* timer is pending.
C6_NoSelfRetrigger ==
  lastRun.conn # NoElem => updateTimeout = NoTimer

C6_Witness ==
  /\ Ran("c1") /\ lastRun.writes = 1 /\ updateTimeout = NoTimer
  /\ "c1" \in processingConnections

\* C7: after import.done on a diagram with at least two message flows and no
\* further notification, every message flow has been reconciled once the
\* debounce timer has fired.
C7_ImportReconcilesAll ==
  (burst.cause = "import" /\ Cardinality(live) >= 2 /\ updateTimeout = NoTimer)
    => burst.flows = {}

\* C8: after a change notification for a task whose attached message flows are
\* not in flight, and no further notification, every attached flow has been
\* reconciled once the debounce timer has fired.
C8_TaskChangeReconcilesAll ==
  (burst.cause = "task" /\ updateTimeout = NoTimer) => burst.flows = {}

\* C9: a reconnect notification for c is accepted even while c is in flight, and
\* the forced reconcile it schedules leaves exactly what the current endpoints
\* call for, whatever was stored before.
C9_ForcedLeavesDesired ==
  \A c \in Conns :
    (Ran(c) /\ lastRun.forced)
      => StoredTriple(ext[c]) =
           (IF Desired(c) # Null /\ Resolvable(c) THEN DesiredTriple(c) ELSE NoTriple)

C9_ReconnectForced ==
  /\ []C9_ForcedLeavesDesired
  /\ [][\A c \in Conns :
          (source'[c] # source[c] \/ target'[c] # target[c])
            => updateTimeout' = [conn |-> c, force |-> TRUE]]_vars

C9_Witness ==
  /\ Ran("c1") /\ lastRun.forced /\ lastRun.wasInFlight
  /\ hasConnectionData(lastRun.before)
  /\ StoredTriple(ext["c1"]) = NoTriple
  /\ Desired("c1") = BINDING

\* C10: when the endpoints call for Binding or Unbinding but a pool cannot be
\* found, a reconcile issues no update and leaves the connection without any
\* classification entry, whatever it stored before.
C10_UnresolvedLeftUnclassified ==
  \A c \in Conns :
    (Ran(c) /\ Desired(c) # Null /\ ~Resolvable(c))
      => (lastRun.writes = 0 /\ ~HasAnyClassificationEntry(ext[c]))


(***************************************************************************)
(* processConnection when the Model Mutator rejects every write: each      *)
(* operator yields the business object the call leaves (the entries are    *)
(* pushed or filtered in place before the write) and how the call ended.   *)
(***************************************************************************)
Ended(bo, how) == [bo |-> bo, how |-> how]

\* the write sits inside try/catch: the error is logged
addConnectionDataRejected(bo, connectionType, src, tgt) ==
  IF getParticipantId(src) = Null \/ getParticipantId(tgt) = Null
    THEN Ended(bo, "returned")
    ELSE Ended(addConnectionData(bo, connectionType, src, tgt).bo, "caught")

\* the write is a bare statement: the error leaves the function
clearAndUpdateRejected(bo) == Ended(clearConnectionData(bo), "thrown")

checkAndAddConnectionDataRejected(c, src, tgt, e) ==
  IF ~needsUpdate(c, src, tgt, e) THEN Ended(e[c], "returned")
  ELSE IF determineConnectionType(src, tgt, e) # Null
         THEN addConnectionDataRejected(e[c], determineConnectionType(src, tgt, e), src, tgt)
  ELSE IF hasConnectionData(e[c]) THEN clearAndUpdateRejected(e[c])
  ELSE Ended(e[c], "returned")

updateConnectionDataRejected(c, src, tgt, e) ==
  checkAndAddConnectionDataRejected(c, src, tgt,
                                    [e EXCEPT ![c] = clearConnectionData(e[c])])

\* try { ... } finally { setTimeout(...) }: no catch clause, so what the body
\* throws leaves processConnection after the grace timer has been set
processConnectionRejected(c, force, e) ==
  IF force THEN updateConnectionDataRejected(c, source[c], target[c], e)
  ELSE checkAndAddConnectionDataRejected(c, source[c], target[c], e)

InitRejected ==
  /\ \E b1 \in KindBodies, b2 \in KindBodies, st \in StoredChoices :
       ext = [e \in Tasks \cup Conns |->
                CASE e = "t1" -> TaskBo(b1)
                  [] e = "t2" -> TaskBo(b2)
                  [] e = "t3" -> TaskBo("Binding")
                  [] e = "c1" -> st
                  [] OTHER -> NoExt]
  /\ source = [c \in Conns |-> "t1"]
  /\ \E t \in {"t2", "t3"} : target = [c \in Conns |-> IF c = "c1" THEN t ELSE "t2"]
  /\ live = Conns
  /\ outgoing = [t \in Tasks |-> <<>>]
  /\ incoming = [t \in Tasks |-> <<>>]
  /\ \E f \in BOOLEAN : updateTimeout = [conn |-> "c1", force |-> f]
  /\ processingConnections = {}
  /\ graceTimers = <<>>
  /\ lastRun = NoRun
  /\ burst = NoBurst
  /\ probe = "unset"

\* the debounce timer fires while the Model Mutator rejects writes
DebounceFireRejected ==
  /\ updateTimeout # NoTimer
  /\ LET c == updateTimeout.conn
         out == processConnectionRejected(c, updateTimeout.force, ext)
     IN /\ ext' = [ext EXCEPT ![c] = out.bo]
        /\ processingConnections' = processingConnections \cup {c}
        /\ graceTimers' = Append(graceTimers, [conn |-> c, age |-> 0])
        /\ lastRun' = [conn |-> c, forced |-> updateTimeout.force, before |-> ext[c],
                       writes |-> 0, wasInFlight |-> c \in processingConnections]
        /\ probe' = out.how
  /\ updateTimeout' = NoTimer
  /\ diagramUnchanged
  /\ UNCHANGED burst

NextRejected == DebounceFireRejected \/ GraceFire

SpecRejected == InitRejected /\ [][NextRejected]_vars

\* C11: when the Model Mutator throws on a write during the reconciliation of
\* a connection, add or clear, the error is caught inside the reconciliation
\* and does not leave processConnection.
C11_MutatorFailureContained ==
  probe # "thrown"


(***************************************************************************)
(* TaskTypeService and AssignmentService on one task (t1).  An operation   *)
(* yields the business object it leaves, whether it threw, whether it      *)
(* fired "elements.changed", and the business object a subscriber sees     *)
(* when that notification is dispatched.                                   *)
(***************************************************************************)
TaskResult(bo, threw, fired, seen) ==
  [bo |-> bo, threw |-> threw, fired |-> fired, seen |-> seen]

setTaskType_fireFirst(bo, key) ==
  IF ~HasTaskConfig(key) THEN TaskResult(bo, TRUE, FALSE, NoExt)
  ELSE IF ~HasExtensionElements(key)
         THEN TaskResult(setExtension(bo, TYPE, key), TRUE, FALSE, NoExt)
  ELSE TaskResult(setTaskTypeBo(bo, key), FALSE, TRUE, setExtension(bo, TYPE, key))

\* setTaskType: throws before any write when there is no config; with a config
\* that has no extensionElements the kind is written and the spread in
\* cleanupIncompatibleExtensions throws
setTaskType(bo, key) ==
  IF ~HasTaskConfig(key) THEN TaskResult(bo, TRUE, FALSE, NoExt)
  ELSE IF ~HasExtensionElements(key)
         THEN TaskResult(setExtension(bo, TYPE, key), TRUE, FALSE, NoExt)
  ELSE TaskResult(setTaskTypeBo(bo, key), FALSE, TRUE, setTaskTypeBo(bo, key))

clearTaskType(bo) ==
  TaskResult(clearCustomExtensions(bo), FALSE, TRUE, clearCustomExtensions(bo))

\* condition || '' and value || ''
OrEmpty(v) == IF v = Null THEN "" ELSE v

RECURSIVE PositionsOf(_, _, _)
PositionsOf(s, type, i) ==
  IF i > Len(s) THEN <<>>
  ELSE (IF s[i].type = type THEN <<i>> ELSE <<>>) \o PositionsOf(s, type, i + 1)

RECURSIVE Dropping(_, _, _)
Dropping(s, drop, i) ==
  IF i > Len(s) THEN <<>>
  ELSE (IF i \in drop THEN <<>> ELSE <<s[i]>>) \o Dropping(s, drop, i + 1)

Max(a, b) == IF a >= b THEN a ELSE b

\* the list of (condition, value) pairs, paired by position
getAssignments(bo) ==
  LET all == getExtensionValues(bo)
      conds == PositionsOf(all, TASK_ASSIGNMENT, 1)
      vals == PositionsOf(all, TASK_ASSIGNMENT_REACHED, 1)
  IN [i \in 1..Max(Len(conds), Len(vals)) |->
        << IF i <= Len(conds) THEN getText(all[conds[i]].body) ELSE "",
           IF i <= Len(vals) THEN getText(all[vals[i]].body) ELSE "" >>]

getAssignmentCount(bo) == Len(getAssignments(bo))

addAssignment(bo, condition, value) ==
  LET b == ensureExtensionElements(bo)
  IN [b EXCEPT !.values = b.values \o
        << Entry(TASK_ASSIGNMENT, OrEmpty(condition)),
           Entry(TASK_ASSIGNMENT_REACHED, OrEmpty(value)) >>]

updateAssignment(bo, index, condition, value) ==
  LET all == getExtensionValues(bo)
      conds == PositionsOf(all, TASK_ASSIGNMENT, 1)
      vals == PositionsOf(all, TASK_ASSIGNMENT_REACHED, 1)
      b1 == IF index >= 0 /\ index < Len(conds)
              THEN [bo EXCEPT !.values[conds[index + 1]].body = OrEmpty(condition)]
              ELSE bo
  IN IF index >= 0 /\ index < Len(vals)
       THEN [b1 EXCEPT !.values[vals[index + 1]].body = OrEmpty(value)]
       ELSE b1

removeAssignment_conditionOnly(bo, index) ==
  IF ~bo.present THEN bo
  ELSE LET conds == PositionsOf(bo.values, TASK_ASSIGNMENT, 1)
           toRemove == IF index >= 0 /\ index < Len(conds) THEN {conds[index + 1]} ELSE {}
       IN [bo EXCEPT !.values = Dropping(bo.values, toRemove, 1)]

removeAssignment_byBody(bo, index) ==
  IF ~bo.present THEN bo
  ELSE LET conds == PositionsOf(bo.values, TASK_ASSIGNMENT, 1)
           vals == PositionsOf(bo.values, TASK_ASSIGNMENT_REACHED, 1)
           At(list) == IF index >= 0 /\ index < Len(list) THEN {list[index + 1]} ELSE {}
           toRemove == {j \in 1..Len(bo.values) :
                          \E k \in At(conds) \cup At(vals) : bo.values[j] = bo.values[k]}
       IN [bo EXCEPT !.values = Dropping(bo.values, toRemove, 1)]

\* the entries at the index are removed by identity; without a container the
\* write throws and the error is logged
removeAssignment(bo, index) ==
  IF ~bo.present THEN bo
  ELSE LET conds == PositionsOf(bo.values, TASK_ASSIGNMENT, 1)
           vals == PositionsOf(bo.values, TASK_ASSIGNMENT_REACHED, 1)
           At(list) == IF index >= 0 /\ index < Len(list) THEN {list[index + 1]} ELSE {}
       IN [bo EXCEPT !.values = Dropping(bo.values, At(conds) \cup At(vals), 1)]

clearAssignments(bo) ==
  removeExtensions(bo, AllTypes \ {TASK_ASSIGNMENT, TASK_ASSIGNMENT_REACHED})


(***************************************************************************)
(* One task under the services.  ext["t1"] is the task; probe records the  *)
(* latest operation: its name, kind key or index, the business object      *)
(* before it, and its TaskResult.                                          *)
(***************************************************************************)
MaxAssign == 2

NoOp == [op |-> "none", key |-> "", index |-> 0, before |-> NoExt,
         threw |-> FALSE, fired |-> FALSE, seen |-> NoExt]

Did(op, key, index, before, r) ==
  [op |-> op, key |-> key, index |-> index, before |-> before,
   threw |-> r.threw, fired |-> r.fired, seen |-> r.seen]

\* an AssignmentService or panel write: returns normally, fires nothing itself
Wrote(bo) == TaskResult(bo, FALSE, FALSE, NoExt)

\* tasks as a diagram file can hold them
ImportedTasks ==
  { NoExt,
    [present |-> TRUE, values |-> <<Entry(TYPE, "Binding")>>],
    [present |-> TRUE, values |-> <<Entry(TYPE, MOVEMENT), Entry(DESTINATION, "")>>],
    [present |-> TRUE, values |-> <<Entry(TYPE, BINDING), Entry(SPACE_BINDING, "alice")>>],
    [present |-> TRUE, values |-> <<Entry("other:Doc", "d"), Entry(TYPE, UNBINDING),
                                    Entry(TASK_ASSIGNMENT, "a"),
                                    Entry(TASK_ASSIGNMENT_REACHED, "1")>>] }

KindKeys == TASK_TYPE_KEYS \cup ObjectPrototypeKeys \cup {"teleport"}
Conditions == {Null, "a"}
ReachedValues == {Null, "1"}

InitTask ==
  /\ \E bo \in ImportedTasks :
       ext = [e \in Tasks \cup Conns |-> IF e = "t1" THEN bo ELSE NoExt]
  /\ source = [c \in Conns |-> "t1"]
  /\ target = [c \in Conns |-> "t2"]
  /\ live = {}
  /\ outgoing = [t \in Tasks |-> <<>>]
  /\ incoming = [t \in Tasks |-> <<>>]
  /\ updateTimeout = NoTimer
  /\ processingConnections = {}
  /\ graceTimers = <<>>
  /\ lastRun = NoRun
  /\ burst = NoBurst
  /\ probe = NoOp

TaskFrame ==
  UNCHANGED <<source, target, incoming, outgoing, live, updateTimeout,
              processingConnections, graceTimers, lastRun, burst>>

TaskSetType(key) ==
  /\ ext' = [ext EXCEPT !["t1"] = setTaskType(ext["t1"], key).bo]
  /\ probe' = Did("setTaskType", key, 0, ext["t1"], setTaskType(ext["t1"], key))
  /\ TaskFrame

TaskClearType ==
  /\ ext' = [ext EXCEPT !["t1"] = clearTaskType(ext["t1"]).bo]
  /\ probe' = Did("clearTaskType", "", 0, ext["t1"], clearTaskType(ext["t1"]))
  /\ TaskFrame

\* the destination input of the properties panel, shown for movement tasks
PanelSetDestination(value) ==
  /\ getCurrentType(ext["t1"]) = MOVEMENT
  /\ value # ""
  /\ ext' = [ext EXCEPT !["t1"] = setExtension(ext["t1"], DESTINATION, value)]
  /\ probe' = Did("setDestination", "", 0, ext["t1"], Wrote(ext'["t1"]))
  /\ TaskFrame

AddAssignment(condition, value) ==
  /\ getAssignmentCount(ext["t1"]) < MaxAssign
  /\ ext' = [ext EXCEPT !["t1"] = addAssignment(ext["t1"], condition, value)]
  /\ probe' = Did("addAssignment", "", 0, ext["t1"], Wrote(ext'["t1"]))
  /\ TaskFrame

UpdateAssignment(index, condition, value) ==
  /\ ext' = [ext EXCEPT !["t1"] = updateAssignment(ext["t1"], index, condition, value)]
  /\ probe' = Did("updateAssignment", "", index, ext["t1"], Wrote(ext'["t1"]))
  /\ TaskFrame

RemoveAssignment(index) ==
  /\ ext' = [ext EXCEPT !["t1"] = removeAssignment(ext["t1"], index)]
  /\ probe' = Did("removeAssignment", "", index, ext["t1"], Wrote(ext'["t1"]))
  /\ TaskFrame

ClearAssignments ==
  /\ ext' = [ext EXCEPT !["t1"] = clearAssignments(ext["t1"])]
  /\ probe' = Did("clearAssignments", "", 0, ext["t1"], Wrote(ext'["t1"]))
  /\ TaskFrame

NextKind ==
  \/ \E key \in KindKeys : TaskSetType(key)
  \/ TaskClearType
  \/ PanelSetDestination("kitchen")

SpecKind == InitTask /\ [][NextKind]_vars

NextAssign ==
  \/ \E c \in Conditions, v \in ReachedValues : AddAssignment(c, v)
  \/ \E i \in -1..MaxAssign, c \in Conditions, v \in ReachedValues : UpdateAssignment(i, c, v)
  \/ \E i \in -1..MaxAssign : RemoveAssignment(i)
  \/ ClearAssignments
  \/ \E key \in {MOVEMENT, BINDING} : TaskSetType(key)
  \/ TaskClearType

SpecAssign == InitTask /\ [][NextAssign]_vars


(***************************************************************************)
(* Vocabulary of the task properties.                                      *)
(***************************************************************************)
TheTask == ext["t1"]

EntryTypes(bo) == {getExtensionValues(bo)[i].type : i \in 1..Len(getExtensionValues(bo))}

\* the extension types the kind's config admits
AllowList(k) == ConfigExtensionElements(k)

HasBindingAttribute(bo) == hasExtension(bo, SPACE_BINDING) \/ hasExtension(bo, EXT_BINDING)

KindRelatedTypes ==
  {TYPE, DESTINATION, SPACE_BINDING, EXT_BINDING, TASK_ASSIGNMENT, TASK_ASSIGNMENT_REACHED}

\* the latest operation was setTaskType(task, k) and it returned normally
SetOk(k) == probe.op = "setTaskType" /\ probe.key = k /\ ~probe.threw

ConditionCount(bo) == Len(PositionsOf(getExtensionValues(bo), TASK_ASSIGNMENT, 1))
ValueCount(bo) == Len(PositionsOf(getExtensionValues(bo), TASK_ASSIGNMENT_REACHED, 1))

\* C12: setTaskType with a key outside {movement, binding, unbinding} throws,
\* leaves every entry of the task as it was and fires no notification.
C12_UnknownKindRejected ==
  (probe.op = "setTaskType" /\ probe.key \notin TASK_TYPE_KEYS)
    => (probe.threw /\ ~probe.fired /\ TheTask = probe.before)

\* C13: after setTaskType(task, k) with a valid k the task's kind is k and every
\* remaining entry has a type in k's allow-list, which contains the kind type;
\* movement leaves no binding entry, binding and unbinding leave no destination.
C13_OnlyAllowedRemain ==
  \A k \in TASK_TYPE_KEYS :
    SetOk(k) =>
      /\ getCurrentType(TheTask) = k
      /\ TYPE \in AllowList(k)
      /\ EntryTypes(TheTask) \subseteq AllowList(k)
      /\ k = MOVEMENT => ~HasBindingAttribute(TheTask)
      /\ k \in {BINDING, UNBINDING} => ~hasExtension(TheTask, DESTINATION)

C13_Witness ==
  /\ SetOk(MOVEMENT)
  /\ hasExtension(probe.before, SPACE_BINDING)
  /\ ~HasBindingAttribute(TheTask)
  /\ getCurrentType(TheTask) = MOVEMENT

\* C14: after setTaskType(task, movement) the destination is non-empty: a
\* non-empty destination stored before is kept, otherwise the default
\* placeholder is written.
C14_MovementHasDestination ==
  SetOk(MOVEMENT) =>
    /\ getDestination(TheTask) # ""
    /\ getDestination(probe.before) # ""
         => getDestination(TheTask) = getDestination(probe.before)
    /\ getDestination(probe.before) = ""
         => getDestination(TheTask) = DefaultDestination

C14_Witness ==
  /\ SetOk(MOVEMENT)
  /\ hasExtension(probe.before, DESTINATION)
  /\ getDestination(probe.before) = ""
  /\ getDestination(TheTask) = DefaultDestination

\* C15: after setTaskType(task, binding) on a task without a binding entry the
\* task has a binding entry whose value is empty.
C15_BindingPlaceholderWritten ==
  (SetOk(BINDING) /\ ~HasBindingAttribute(probe.before))
    => (HasBindingAttribute(TheTask) /\ getBinding(TheTask) = "")

\* C16: after clearTaskType the task has no kind and no kind, destination,
\* binding or assignment entry.
C16_ClearRemovesKindData ==
  probe.op = "clearTaskType"
    => (getCurrentType(TheTask) = "" /\ EntryTypes(TheTask) \cap KindRelatedTypes = {})

\* C17: every setTaskType that returns normally and every clearTaskType fires
\* elements.changed, and the subscriber it reaches sees the task as the
\* operation finally leaves it.
C17_NotifiedAfterWrites ==
  ((probe.op = "setTaskType" /\ ~probe.threw) \/ probe.op = "clearTaskType")
    => (probe.fired /\ probe.seen = TheTask)

C17_Witness ==
  /\ SetOk(MOVEMENT) /\ probe.fired
  /\ hasExtension(probe.before, SPACE_BINDING)
  /\ probe.seen = TheTask
  /\ getDestination(probe.seen) = DefaultDestination
  /\ ~hasExtension(probe.seen, SPACE_BINDING)

\* C18: starting with as many condition entries as value entries, any sequence
\* of addAssignment, updateAssignment, removeAssignment (any index),
\* clearAssignments, setTaskType and clearTaskType keeps the two counts equal.
C18_ListsSameLength ==
  ConditionCount(TheTask) = ValueCount(TheTask)

C18_Witness ==
  /\ probe.op = "removeAssignment" /\ probe.index = 1
  /\ ConditionCount(probe.before) = 2 /\ ValueCount(probe.before) = 2
  /\ ConditionCount(TheTask) = 1 /\ ValueCount(TheTask) = 1

\* C19: removeAssignment(task, i) with 0 <= i < n leaves n - 1 assignments:
\* those before index i unchanged, each later one moved down by one.
C19_RemoveShiftsDown ==
  (probe.op = "removeAssignment" /\ probe.index >= 0
     /\ probe.index < getAssignmentCount(probe.before))
    => /\ getAssignmentCount(TheTask) = getAssignmentCount(probe.before) - 1
       /\ \A j \in 1..getAssignmentCount(TheTask) :
            getAssignments(TheTask)[j] =
              (IF j <= probe.index THEN getAssignments(probe.before)[j]
               ELSE getAssignments(probe.before)[j + 1])

C19_Witness ==
  /\ probe.op = "removeAssignment" /\ probe.index = 0
  /\ getAssignments(probe.before) = << <<"a", "1">>, <<"", "">> >>
  /\ getAssignments(TheTask) = << <<"", "">> >>


(***************************************************************************)
(* ValidationService: the backward search for Binding tasks.  The diagram  *)
(* here has pool P1 (process Process_1) with tasks A, B, C, gateway G and  *)
(* sub-process S holding tasks N and M, and pool P2 (Process_2) with task   *)
(* X.                                                                      *)
(* incoming[n] lists the flows that end at n, source[f] is where f starts. *)
(***************************************************************************)
VTasks == {"A", "B", "C", "N", "M", "X"}
VNodes == VTasks \cup {"G"}
VFlowOrder == <<"f1", "f2", "f3", "f4", "f5", "f6", "f7", "m1">>
VFlows == Range(VFlowOrder)

VSource(f) ==
  CASE f = "f1" -> "A" [] f = "f2" -> "B" [] f = "f3" -> "C" [] f = "f4" -> "X"
    [] f = "f5" -> "N" [] f = "f6" -> "A" [] f = "f7" -> "G" [] f = "m1" -> "X"
    [] f = "f8" -> "B"

VTarget(f) ==
  CASE f = "f1" -> "B" [] f = "f2" -> "C" [] f = "f3" -> "A" [] f = "f4" -> "C"
    [] f = "f5" -> "M" [] f = "f6" -> "G" [] f = "f7" -> "C" [] f = "m1" -> "B"
    [] f = "f8" -> "B"

FlowType(f) == IF f = "m1" THEN "bpmn:MessageFlow" ELSE "bpmn:SequenceFlow"

NodeType(n) ==
  CASE n \in VTasks -> "bpmn:Task"
    [] n = "G" -> "bpmn:ExclusiveGateway"
    [] n = "S" -> "bpmn:SubProcess"
    [] n \in Pools -> "bpmn:Participant"
    [] OTHER -> Null

\* element.parent: the shape that contains the element
ShapeParent(n) ==
  CASE n \in {"A", "B", "C", "G", "S"} -> "P1"
    [] n \in {"N", "M"} -> "S"
    [] n = "X" -> "P2"
    [] OTHER -> NoElem

\* element.businessObject.$parent, by id
BoParent(n) ==
  CASE n \in {"A", "B", "C", "G", "S"} -> "Process_1"
    [] n \in {"N", "M"} -> "S"
    [] n = "X" -> "Process_2"
    [] OTHER -> NoElem

ProcessRef(p) == IF p = "P1" THEN "Process_1" ELSE "Process_2"

getContainingParticipant(element) ==
  IF BoParent(element) = NoElem THEN Null
  ELSE IF \E p \in Pools : ProcessRef(p) = BoParent(element)
         THEN CHOOSE p \in Pools : ProcessRef(p) = BoParent(element)
  ELSE Null

\* child, child.parent, child.parent.parent, ... up to the root
RECURSIVE ParentChain(_)
ParentChain(current) ==
  IF current = NoElem THEN {} ELSE {current} \cup ParentChain(ShapeParent(current))

isDescendantOf_any(child, ancestor) == TRUE

isDescendantOf(child, ancestor) == ancestor \in ParentChain(child)

\* the sources the loop over node.incoming pushes, in order
RECURSIVE SourcesIn(_, _)
SourcesIn(flows, pool) ==
  IF flows = <<>> THEN <<>>
  ELSE IF FlowType(Head(flows)) = "bpmn:SequenceFlow"
            /\ isDescendantOf(source[Head(flows)], pool)
         THEN <<source[Head(flows)]>> \o SourcesIn(Tail(flows), pool)
         ELSE SourcesIn(Tail(flows), pool)

RECURSIVE BindingOnes(_)
BindingOnes(nodes) ==
  IF nodes = <<>> THEN <<>>
  ELSE IF NodeType(Head(nodes)) = "bpmn:Task" /\ getCurrentType(ext[Head(nodes)]) = BINDING
         THEN <<Head(nodes)>> \o BindingOnes(Tail(nodes))
         ELSE BindingOnes(Tail(nodes))

\* the while loop: pop, skip when visited, else mark and scan the incoming flows
RECURSIVE UpstreamLoop(_, _, _, _)
UpstreamLoop(stack, visited, bindingTasks, pool) ==
  IF stack = <<>> THEN bindingTasks
  ELSE LET node == stack[Len(stack)]
           rest == SubSeq(stack, 1, Len(stack) - 1)
       IN IF node \in visited THEN UpstreamLoop(rest, visited, bindingTasks, pool)
          ELSE UpstreamLoop(rest \o SourcesIn(incoming[node], pool),
                            visited \cup {node},
                            bindingTasks \o BindingOnes(SourcesIn(incoming[node], pool)),
                            pool)

findUpstreamBindingTasks(element) ==
  IF getContainingParticipant(element) = Null THEN <<>>
  ELSE UpstreamLoop(<<element>>, {}, <<>>, getContainingParticipant(element))

VKinds == {"", BINDING}

NoSearch == [start |-> NoElem, result |-> <<>>]

InitValidate ==
  /\ \E k \in [VTasks -> VKinds] :
       ext = [n \in VNodes |-> IF n \in VTasks THEN TaskBo(k[n]) ELSE NoExt]
  /\ source = [f \in VFlows |-> VSource(f)]
  /\ target = [f \in VFlows |-> VTarget(f)]
  /\ \E l \in SUBSET VFlows :
       /\ live = l
       /\ incoming = [n \in VNodes |->
            LiveFlows(SelectSeq(VFlowOrder, LAMBDA f : VTarget(f) = n), l)]
       /\ outgoing = [n \in VNodes |->
            LiveFlows(SelectSeq(VFlowOrder, LAMBDA f : VSource(f) = n), l)]
  /\ updateTimeout = NoTimer
  /\ processingConnections = {}
  /\ graceTimers = <<>>
  /\ lastRun = NoRun
  /\ burst = NoBurst
  /\ probe = NoSearch

FindUpstream(t) ==
  /\ probe = NoSearch
  /\ probe' = [start |-> t, result |-> findUpstreamBindingTasks(t)]
  /\ UNCHANGED <<ext, source, target, incoming, outgoing, live, updateTimeout,
                 processingConnections, graceTimers, lastRun, burst>>

NextValidate == \E t \in VTasks : FindUpstream(t)

SpecValidate == InitValidate /\ [][NextValidate]_vars

(***************************************************************************)
(* Vocabulary of the validator properties.                                 *)
(***************************************************************************)
\* the pool whose shape contains the node
RECURSIVE PoolAround(_)
PoolAround(n) ==
  IF n = NoElem THEN Null
  ELSE IF n \in Pools THEN n
  ELSE PoolAround(ShapeParent(n))

IsBindingTask(n) == n \in VTasks /\ getCurrentType(ext[n]) = BINDING

\* nodes of the pool with a sequence flow into a node of T
StepBack(T, pool) ==
  {source[f] : f \in {g \in live : /\ FlowType(g) = "bpmn:SequenceFlow"
                                   /\ target[g] \in T
                                   /\ PoolAround(source[g]) = pool}}

\* nodes of the pool from which t is reachable by one or more sequence flows
RECURSIVE BackClosure(_, _, _)
BackClosure(t, R, pool) ==
  IF StepBack({t} \cup R, pool) \subseteq R THEN R
  ELSE BackClosure(t, R \cup StepBack({t} \cup R, pool), pool)

Upstream(t) == BackClosure(t, {}, PoolAround(t))

Searched == probe.start # NoElem

RECURSIVE TargetsIn(_, _)
TargetsIn(flows, pool) ==
  IF flows = <<>> THEN <<>>
  ELSE IF FlowType(Head(flows)) = "bpmn:SequenceFlow"
            /\ isDescendantOf(target[Head(flows)], pool)
         THEN <<target[Head(flows)]>> \o TargetsIn(Tail(flows), pool)
         ELSE TargetsIn(Tail(flows), pool)

RECURSIVE UnbindingOnes(_)
UnbindingOnes(nodes) ==
  IF nodes = <<>> THEN <<>>
  ELSE IF NodeType(Head(nodes)) = "bpmn:Task" /\ getCurrentType(ext[Head(nodes)]) = UNBINDING
         THEN <<Head(nodes)>> \o UnbindingOnes(Tail(nodes))
         ELSE UnbindingOnes(Tail(nodes))

RECURSIVE DownstreamLoop(_, _, _, _)
DownstreamLoop(stack, visited, dependentTasks, pool) ==
  IF stack = <<>> THEN dependentTasks
  ELSE LET node == stack[Len(stack)]
           rest == SubSeq(stack, 1, Len(stack) - 1)
       IN IF node \in visited THEN DownstreamLoop(rest, visited, dependentTasks, pool)
          ELSE DownstreamLoop(rest \o TargetsIn(outgoing[node], pool),
                              visited \cup {node},
                              dependentTasks \o UnbindingOnes(TargetsIn(outgoing[node], pool)),
                              pool)

findDependentUnbindingTasks(bindingElement) ==
  IF getContainingParticipant(bindingElement) = Null THEN <<>>
  ELSE DownstreamLoop(<<bindingElement>>, {}, <<>>, getContainingParticipant(bindingElement))

requiresValidation_always(fromType, toType) == TRUE

requiresValidation(fromType, toType) ==
  \/ fromType = BINDING /\ toType # BINDING
  \/ toType = UNBINDING

ConfigValidationRules_none(key) == <<>>

\* config.validationRules of the three kinds
ConfigValidationRules(key) ==
  IF key = UNBINDING THEN <<"requiresUpstreamBinding">> ELSE <<>>

\* config.validationRules can be read and iterated
HasValidationRules(key) == key \in TASK_TYPE_KEYS

\* a warning: the names its message lists and the marker that ends the list
Warning(type, severity, affectedTasks, listed, suffix) ==
  [type |-> type, severity |-> severity, affectedTasks |-> affectedTasks,
   listed |-> listed, suffix |-> suffix]

NoWarning == Warning(Null, Null, <<>>, <<>>, "")

Slice3(s) == SubSeq(s, 1, IF Len(s) > 3 THEN 3 ELSE Len(s))

getUpstreamBindingWarning(element) ==
  IF Len(findUpstreamBindingTasks(element)) = 0
    THEN Warning("missing_upstream_binding", "warning", <<>>, <<>>, "")
    ELSE NoWarning

getDownstreamUnbindingWarning(element, currentType, newTypeKey) ==
  IF currentType = BINDING /\ newTypeKey # BINDING
       /\ Len(findDependentUnbindingTasks(element)) > 0
    THEN Warning("orphaned_unbinding", "warning", findDependentUnbindingTasks(element),
                 Slice3(findDependentUnbindingTasks(element)),
                 IF Len(findDependentUnbindingTasks(element)) > 3 THEN "..." ELSE "")
    ELSE NoWarning

getBindingChangeWarning(element) ==
  IF Len(findDependentUnbindingTasks(element)) > 0
    THEN Warning("binding_change_impact", "info", findDependentUnbindingTasks(element),
                 findDependentUnbindingTasks(element), "")
    ELSE NoWarning

applyValidationWarning(element, rule, currentType, newTypeKey) ==
  CASE rule = "requiresUpstreamBinding" -> getUpstreamBindingWarning(element)
    [] rule = "noDownstreamUnbinding" ->
         getDownstreamUnbindingWarning(element, currentType, newTypeKey)
    [] OTHER -> NoWarning

\* the warnings the loop over the rules pushes
RECURSIVE RuleWarnings(_, _, _, _)
RuleWarnings(rules, element, currentType, newTypeKey) ==
  IF rules = <<>> THEN <<>>
  ELSE (IF applyValidationWarning(element, Head(rules), currentType, newTypeKey) # NoWarning
          THEN <<applyValidationWarning(element, Head(rules), currentType, newTypeKey)>>
          ELSE <<>>)
       \o RuleWarnings(Tail(rules), element, currentType, newTypeKey)

\* how many of the rules call a graph search
RECURSIVE RuleSearches(_, _, _)
RuleSearches(rules, currentType, newTypeKey) ==
  IF rules = <<>> THEN 0
  ELSE (IF Head(rules) = "requiresUpstreamBinding"
             \/ (Head(rules) = "noDownstreamUnbinding"
                   /\ currentType = BINDING /\ newTypeKey # BINDING)
          THEN 1 ELSE 0)
       + RuleSearches(Tail(rules), currentType, newTypeKey)

\* what a validator call yields: whether it threw, the valid flag, the
\* warnings, and the number of graph searches it started
Checked(threw, valid, warnings, searches) ==
  [threw |-> threw, valid |-> valid, warnings |-> warnings, searches |-> searches]

getValidationWarnings(element, newTypeKey, currentType) ==
  IF ~HasValidationRules(newTypeKey) THEN Checked(TRUE, FALSE, <<>>, 0)
  ELSE LET fromRules == RuleWarnings(ConfigValidationRules(newTypeKey), element,
                                     currentType, newTypeKey)
           leaving == currentType = BINDING /\ newTypeKey # BINDING
       IN Checked(FALSE, TRUE,
                  fromRules \o (IF leaving /\ getBindingChangeWarning(element) # NoWarning
                                  THEN <<getBindingChangeWarning(element)>> ELSE <<>>),
                  RuleSearches(ConfigValidationRules(newTypeKey), currentType, newTypeKey)
                    + (IF leaving THEN 1 ELSE 0))

validateTypeChange(element, newTypeKey) ==
  IF ~HasTaskConfig(newTypeKey) THEN Checked(FALSE, FALSE, <<>>, 0)
  ELSE IF getCurrentType(ext[element]) = newTypeKey THEN Checked(FALSE, TRUE, <<>>, 0)
  ELSE IF ~requiresValidation(getCurrentType(ext[element]), newTypeKey)
         THEN Checked(FALSE, TRUE, <<>>, 0)
  ELSE getValidationWarnings(element, newTypeKey, getCurrentType(ext[element]))

quickValidationCheck(element, newTypeKey) ==
  IF getCurrentType(ext[element]) = newTypeKey THEN Checked(FALSE, TRUE, <<>>, 0)
  ELSE IF ~requiresValidation(getCurrentType(ext[element]), newTypeKey)
         THEN Checked(FALSE, TRUE, <<>>, 0)
  ELSE getValidationWarnings(element, newTypeKey, getCurrentType(ext[element]))


(***************************************************************************)
(* The validator asked about a kind change of a task of the diagram.       *)
(* probe records the call and what it yielded.                             *)
(***************************************************************************)
WKinds == {"", BINDING, UNBINDING}
WFlows == {"f1", "f2", "f3", "f4", "f5"}
WStarts == {"A", "C", "N"}
WKeys == TASK_TYPE_KEYS \cup {"teleport", "constructor"}

NoCheck == [fn |-> "none", start |-> NoElem, key |-> "",
            res |-> Checked(FALSE, FALSE, <<>>, 0)]

InitWarn ==
  /\ \E k \in [VTasks -> WKinds] :
       ext = [n \in VNodes |-> IF n \in VTasks THEN TaskBo(k[n]) ELSE NoExt]
  /\ source = [f \in VFlows |-> VSource(f)]
  /\ target = [f \in VFlows |-> VTarget(f)]
  /\ \E l \in SUBSET WFlows :
       /\ live = l
       /\ incoming = [n \in VNodes |->
            LiveFlows(SelectSeq(VFlowOrder, LAMBDA f : VTarget(f) = n), l)]
       /\ outgoing = [n \in VNodes |->
            LiveFlows(SelectSeq(VFlowOrder, LAMBDA f : VSource(f) = n), l)]
  /\ updateTimeout = NoTimer
  /\ processingConnections = {}
  /\ graceTimers = <<>>
  /\ lastRun = NoRun
  /\ burst = NoBurst
  /\ probe = NoCheck

ValidateTypeChange(t, key) ==
  /\ probe = NoCheck
  /\ probe' = [fn |-> "validateTypeChange", start |-> t, key |-> key,
               res |-> validateTypeChange(t, key)]
  /\ UNCHANGED <<ext, source, target, incoming, outgoing, live, updateTimeout,
                 processingConnections, graceTimers, lastRun, burst>>

QuickValidationCheck(t, key) ==
  /\ probe = NoCheck
  /\ probe' = [fn |-> "quickValidationCheck", start |-> t, key |-> key,
               res |-> quickValidationCheck(t, key)]
  /\ UNCHANGED <<ext, source, target, incoming, outgoing, live, updateTimeout,
                 processingConnections, graceTimers, lastRun, burst>>

NextWarn ==
  \/ \E t \in WStarts, key \in WKeys : ValidateTypeChange(t, key)
  \/ \E t \in WStarts, key \in WKeys : QuickValidationCheck(t, key)

SpecWarn == InitWarn /\ [][NextWarn]_vars


(***************************************************************************)
(* Vocabulary of the warning properties.                                   *)
(***************************************************************************)
IsUnbindingTask(n) == n \in VTasks /\ getCurrentType(ext[n]) = UNBINDING

\* nodes of the pool that a sequence flow from a node of T enters
StepForward(T, pool) ==
  {target[f] : f \in {g \in live : /\ FlowType(g) = "bpmn:SequenceFlow"
                                   /\ source[g] \in T
                                   /\ PoolAround(target[g]) = pool}}

\* nodes of the pool reachable from t by one or more sequence flows
RECURSIVE ForwardClosure(_, _, _)
ForwardClosure(t, R, pool) ==
  IF StepForward({t} \cup R, pool) \subseteq R THEN R
  ELSE ForwardClosure(t, R \cup StepForward({t} \cup R, pool), pool)

Downstream(t) == ForwardClosure(t, {}, PoolAround(t))

Asked == probe.fn # "none"
CurrentKind == getCurrentType(ext[probe.start])
LeavesBinding == CurrentKind = BINDING /\ probe.key # BINDING
WarningsOfType(type) ==
  {i \in 1..Len(probe.res.warnings) : probe.res.warnings[i].type = type}
AffectedTasks ==
  UNION {Range(probe.res.warnings[i].affectedTasks) : i \in 1..Len(probe.res.warnings)}

\* C21: validating the change of a Binding task to another kind yields a
\* warning whose affectedTasks hold every Unbinding task reachable forward
\* from it along sequence flows inside its pool, and no task of another pool.
C21_AffectedCoverDownstream ==
  (Asked /\ LeavesBinding /\ probe.key \in TASK_TYPE_KEYS)
    => /\ {n \in Downstream(probe.start) : IsUnbindingTask(n)} \subseteq AffectedTasks
       /\ \A n \in AffectedTasks : PoolAround(n) = PoolAround(probe.start)

\* C22: validating a change to Unbinding of a task of another kind yields a
\* warning missing_upstream_binding, of severity warning, exactly when
\* findUpstreamBindingTasks of the task is empty.
C22_MissingUpstreamWarning ==
  (Asked /\ probe.key = UNBINDING /\ CurrentKind # UNBINDING)
    => /\ ~probe.res.threw
       /\ (WarningsOfType("missing_upstream_binding") # {})
            <=> (findUpstreamBindingTasks(probe.start) = <<>>)
       /\ \A i \in WarningsOfType("missing_upstream_binding") :
            probe.res.warnings[i].severity = "warning"

C22_Witness ==
  /\ probe.fn = "validateTypeChange" /\ probe.start = "C" /\ probe.key = UNBINDING
  /\ CurrentKind = "" /\ {"f1", "f2"} \subseteq live
  /\ ~IsBindingTask("A") /\ ~IsBindingTask("B") /\ IsBindingTask("X")
  /\ Len(probe.res.warnings) = 1
  /\ probe.res.warnings[1].type = "missing_upstream_binding"

\* C23: validating the change of a Binding task to another kind yields a
\* warning orphaned_unbinding, of severity warning, exactly when
\* findDependentUnbindingTasks of the task is non-empty; its message lists at
\* most 3 names, followed by the ellipsis exactly when more than 3 are affected.
C23_OrphanedUnbindingWarning ==
  (Asked /\ LeavesBinding /\ probe.key \in TASK_TYPE_KEYS)
    => /\ (WarningsOfType("orphaned_unbinding") # {})
            <=> (findDependentUnbindingTasks(probe.start) # <<>>)
       /\ \A i \in WarningsOfType("orphaned_unbinding") :
            /\ probe.res.warnings[i].severity = "warning"
            /\ Len(probe.res.warnings[i].listed) <= 3
            /\ (probe.res.warnings[i].suffix = "...")
                 <=> (Len(probe.res.warnings[i].affectedTasks) > 3)

\* C24: validateTypeChange and quickValidationCheck never throw and always
\* yield valid = true, for every task and every requested key.
C24_NeverVetoes ==
  Asked => (~probe.res.threw /\ probe.res.valid)

\* C25: when the requested kind is the current one, or the change neither
\* leaves Binding nor targets Unbinding, both calls return without a warning
\* and without starting a graph search.
C25_NoValidationWhenNotTriggered ==
  (Asked /\ (probe.key = CurrentKind \/ (~LeavesBinding /\ probe.key # UNBINDING)))
    => (~probe.res.threw /\ probe.res.warnings = <<>> /\ probe.res.searches = 0)

C25_Witness ==
  /\ probe.fn = "quickValidationCheck" /\ probe.start = "A" /\ probe.key = MOVEMENT
  /\ CurrentKind = UNBINDING /\ {"f1", "f2"} \subseteq live
  /\ IsUnbindingTask("C") /\ ~IsBindingTask("B")
  /\ probe.res = Checked(FALSE, TRUE, <<>>, 0)


(***************************************************************************)
(* The extension service on one business object.  ext["t1"] is the object; *)
(* probe records the latest call: its name, the entry type and value given *)
(* to setExtension, the entry types the predicate of removeExtensions      *)
(* selects, the object before the call, what the call evaluated to, and    *)
(* whether the call repeats the call before it.                            *)
(***************************************************************************)
MaxExt == 3

ExtKeys == {TYPE, DESTINATION, "other:Doc"}
ExtBodies == {"a", "b"}

EntriesUpTo(n) ==
  UNION { [1..k -> {Entry(t, b) : t \in ExtKeys, b \in ExtBodies}] : k \in 0..n }

ExtObjects ==
  {NoExt} \cup {[present |-> TRUE, values |-> v] : v \in EntriesUpTo(MaxExt)}

NoCall == [op |-> "none", type |-> "", value |-> "", removed |-> {},
           before |-> NoExt, returned |-> "undefined", repeat |-> FALSE]

InitExt ==
  /\ \E bo \in ExtObjects :
       ext = [e \in Tasks \cup Conns |-> IF e = "t1" THEN bo ELSE NoExt]
  /\ source = [c \in Conns |-> "t1"]
  /\ target = [c \in Conns |-> "t2"]
  /\ live = {}
  /\ outgoing = [t \in Tasks |-> <<>>]
  /\ incoming = [t \in Tasks |-> <<>>]
  /\ updateTimeout = NoTimer
  /\ processingConnections = {}
  /\ graceTimers = <<>>
  /\ lastRun = NoRun
  /\ burst = NoBurst
  /\ probe = NoCall

SetExtension(type, value) ==
  /\ ext' = [ext EXCEPT !["t1"] = setExtension(ext["t1"], type, value)]
  /\ probe' = [op |-> "setExtension", type |-> type, value |-> value,
               removed |-> {}, before |-> ext["t1"], returned |-> "undefined",
               repeat |-> /\ probe.op = "setExtension"
                          /\ probe.type = type
                          /\ probe.value = value]
  /\ TaskFrame

RemoveExtensions(types) ==
  /\ ext' = [ext EXCEPT !["t1"] = removeExtensions(ext["t1"], AllTypes \ types)]
  /\ probe' = [op |-> "removeExtensions", type |-> "", value |-> "",
               removed |-> types, before |-> ext["t1"],
               returned |-> removeExtensionsReturn(ext["t1"], AllTypes \ types),
               repeat |-> FALSE]
  /\ TaskFrame

NextExt ==
  \/ \E type \in ExtKeys, value \in ExtBodies : SetExtension(type, value)
  \/ \E types \in SUBSET ExtKeys : RemoveExtensions(types)

SpecExt == InitExt /\ [][NextExt]_vars

\* ---- vocabulary of the claims about the extension service ----

TheObject == ext["t1"]

\* positions of the entries of the given type
PositionsOfType(s, type) == {i \in 1..Len(s) : s[i].type = type}

\* the entries of s at the positions in keepAt, in their order
RECURSIVE Restrict(_, _, _)
Restrict(s, keepAt, i) ==
  IF i > Len(s) THEN <<>>
  ELSE IF i \in keepAt THEN <<s[i]>> \o Restrict(s, keepAt, i + 1)
  ELSE Restrict(s, keepAt, i + 1)

Least(S) == CHOOSE x \in S : \A y \in S : x <= y

SetCalled == probe.op = "setExtension"
RemoveCalled == probe.op = "removeExtensions"

\* C26: setExtension is an idempotent upsert: with no entry of the type it
\* appends exactly one entry holding the value; with an entry of the type it
\* writes the value into the first such entry and leaves the number, order,
\* types and all other bodies as they were; a call repeating the previous
\* call leaves the object as it was
C26_SetExtensionUpsert ==
  SetCalled =>
    LET old == getExtensionValues(probe.before)
        new == getExtensionValues(TheObject)
        at == PositionsOfType(old, probe.type)
    IN /\ TheObject.present
       /\ at = {} => new = Append(old, Entry(probe.type, probe.value))
       /\ at # {} =>
            /\ Len(new) = Len(old)
            /\ \A i \in 1..Len(old) :
                 /\ new[i].type = old[i].type
                 /\ new[i].body = IF i = Least(at) THEN probe.value ELSE old[i].body
       /\ probe.repeat => TheObject = probe.before

\* an entry was updated in place among other entries, by a call repeating
\* the previous one
C26_Witness ==
  /\ SetCalled
  /\ probe.repeat
  /\ Cardinality(PositionsOfType(getExtensionValues(probe.before), probe.type)) = 1
  /\ Len(getExtensionValues(probe.before)) >= 2

\* the object holds the entries the predicate does not select, in their order
RemovedExactly ==
  LET old == getExtensionValues(probe.before)
      keepAt == {i \in 1..Len(old) : old[i].type \notin probe.removed}
  IN getExtensionValues(TheObject) = Restrict(old, keepAt, 1)

\* C27: removeExtensions removes exactly the entries the predicate selects,
\* keeps the others in their order, and returns true when an entry was
\* removed and false otherwise
C27_RemovesAndReports ==
  RemoveCalled =>
    /\ RemovedExactly
    /\ probe.returned = IF TheObject # probe.before THEN "true" ELSE "false"

\* C27 as the code has it: removeExtensions removes exactly the entries the
\* predicate selects, keeps the others in their order, and evaluates to
\* undefined whether or not an entry was removed
C27_RemovesOnly ==
  RemoveCalled =>
    /\ RemovedExactly
    /\ probe.returned = "undefined"

\* entries were removed from between entries that stay
C27_Witness ==
  /\ RemoveCalled
  /\ Len(getExtensionValues(probe.before)) = 3
  /\ probe.before.values[2].type \in probe.removed
  /\ Len(getExtensionValues(TheObject)) = 2


(***************************************************************************)
(* processConnection step by step.  probe.stack holds the processConnection*)
(* calls that have started and not yet returned, innermost last; a frame   *)
(* is at "run" before its reconcile call and at "finally" after it.  The   *)
(* host runs every event handler and timer callback to completion, so an   *)
(* event or a timer is taken up only when no call is executing.            *)
(***************************************************************************)
Frame(c, force, pc) == [conn |-> c, force |-> force, pc |-> pc, writes |-> 0]
NoCalls == [stack |-> <<>>]

Idle == probe.stack = <<>>

\* variant: the listener reconciles a changed message flow at once
listenerCalls_direct(el) ==
  IF ElType(el) = "bpmn:MessageFlow" THEN <<el>> ELSE <<>>

\* the processConnection calls the element.changed listener makes before it
\* returns: none, it only calls scheduleUpdate, which defers through setTimeout
listenerCalls(el) == <<>>

RECURSIVE FramesOf(_)
FramesOf(calls) ==
  IF calls = <<>> THEN <<>>
  ELSE <<Frame(Head(calls), FALSE, "run")>> \o FramesOf(Tail(calls))

InitReentry ==
  /\ ext = [e \in Tasks \cup Conns |->
              IF e = "t3" THEN [present |-> TRUE, values |-> <<Entry(TYPE, "Binding")>>]
              ELSE NoExt]
  /\ source = [c \in Conns |-> "t1"]
  /\ target = [c \in Conns |-> "t2"]
  /\ live = {"c1"}
  /\ outgoing = [t \in Tasks |->
       CASE t = "t1" -> <<"c1">> [] t = "t2" -> <<"sf1">> [] OTHER -> <<>>]
  /\ incoming = [t \in Tasks |->
       CASE t = "t2" -> <<"c1">> [] t = "t3" -> <<"sf1">> [] OTHER -> <<>>]
  /\ updateTimeout = NoTimer
  /\ processingConnections = {}
  /\ graceTimers = <<>>
  /\ lastRun = NoRun
  /\ burst = NoBurst
  /\ probe = NoCalls

\* the debounce timer fires and processConnection marks the connection
BeginProcessing ==
  /\ Idle
  /\ updateTimeout # NoTimer
  /\ \A i \in 1..Len(graceTimers) : graceTimers[i].age = 0
  /\ processingConnections' = processingConnections \cup {updateTimeout.conn}
  /\ probe' = [stack |-> <<Frame(updateTimeout.conn, updateTimeout.force, "run")>>]
  /\ updateTimeout' = NoTimer
  /\ burst' = [burst EXCEPT !.flows = @ \ {updateTimeout.conn}]
  /\ lastRun' = NoRun
  /\ diagramUnchanged
  /\ UNCHANGED <<ext, graceTimers>>

\* the innermost call reconciles; each write notifies the listeners before
\* the write returns, and a call a listener makes starts on top of this one
Reconcile ==
  /\ ~Idle
  /\ probe.stack[Len(probe.stack)].pc = "run"
  /\ LET n == Len(probe.stack)
         c == probe.stack[n].conn
         out == processConnectionOutcome(c, probe.stack[n].force, ext)
         calls == IF out.writes > 0 THEN listenerCalls(c) ELSE <<>>
     IN /\ ext' = [ext EXCEPT ![c] = out.bo]
        /\ updateTimeout' = notifyWrites(out.writes, c, updateTimeout,
                                         processingConnections, incoming, outgoing)
        /\ processingConnections' = processingConnections \cup Range(calls)
        /\ probe' = [stack |->
              [probe.stack EXCEPT ![n] = [@ EXCEPT !.pc = "finally",
                                                   !.writes = out.writes]]
              \o FramesOf(calls)]
  /\ diagramUnchanged
  /\ UNCHANGED <<graceTimers, lastRun, burst>>

\* the finally block of the innermost call sets the 100 ms timer; the call returns
EndProcessing ==
  /\ ~Idle
  /\ probe.stack[Len(probe.stack)].pc = "finally"
  /\ graceTimers' = Append([i \in 1..Len(graceTimers) |->
                              [graceTimers[i] EXCEPT !.age = 1]],
                           [conn |-> probe.stack[Len(probe.stack)].conn, age |-> 0])
  /\ probe' = [stack |-> SubSeq(probe.stack, 1, Len(probe.stack) - 1)]
  /\ diagramUnchanged
  /\ UNCHANGED <<ext, updateTimeout, processingConnections, lastRun, burst>>

\* events and the grace timer, taken up when no call is executing
TaskChanged(t, key) == Idle /\ SetTaskType(t, key)
FlowAdded(c) == Idle /\ ConnectionAdded(c)
FlowReconnected(c, n) == Idle /\ ReconnectTarget(c, n)
Imported == Idle /\ ImportDone
GraceElapsed == Idle /\ GraceFire

NextReentry ==
  \/ \E t \in TypedTasks, key \in {BINDING, UNBINDING} : TaskChanged(t, key)
  \/ \E c \in Conns : FlowAdded(c)
  \/ \E n \in {"t2", "t3"} : FlowReconnected("c1", n)
  \/ Imported
  \/ BeginProcessing
  \/ Reconcile
  \/ EndProcessing
  \/ GraceElapsed

SpecReentry == InitReentry /\ [][NextReentry]_vars

\* ---- vocabulary ----
Executing(c) == {i \in 1..Len(probe.stack) : probe.stack[i].conn = c}

\* C28: a connection is never reconciled concurrently with itself: at no
\* time are two processConnection calls for the same connection executing,
\* also not one started from a notification of the other's write
C28_NoSelfConcurrency ==
  \A c \in Conns : Cardinality(Executing(c)) <= 1

\* a processConnection call has written and notified, and is still executing
C28_Witness ==
  /\ Len(probe.stack) = 1
  /\ probe.stack[1].pc = "finally"
  /\ probe.stack[1].writes = 1


\* ---- the stored classification as a whole ----
CountOfType(bo, type) == Cardinality(PositionsOfType(getExtensionValues(bo), type))

HasAllThree(bo) ==
  /\ CountOfType(bo, TYPE) = 1
  /\ CountOfType(bo, PARTICIPANT1) = 1
  /\ CountOfType(bo, PARTICIPANT2) = 1
  /\ StoredTriple(bo)[1] # Null /\ StoredTriple(bo)[2] # Null /\ StoredTriple(bo)[3] # Null

\* C29: every message flow holds all three classification entries (type,
\* first pool reference, second pool reference) or none of them, and a
\* processing that leaves a classification it wrote has written the three
\* entries in one update of the Model Mutator
C29_TripleAllOrNone ==
  /\ \A c \in Conns : HasAllThree(ext[c]) \/ ~HasAnyClassificationEntry(ext[c])
  /\ \A c \in Conns :
       (Ran(c) /\ lastRun.writes > 0 /\ HasAnyClassificationEntry(ext[c]))
         => lastRun.writes = 1 /\ HasAllThree(ext[c])

\* a processing replaced a stored classification by another one
C29_Witness ==
  /\ Ran("c1")
  /\ lastRun.writes = 1
  /\ HasAllThree(lastRun.before)
  /\ HasAllThree(ext["c1"])
  /\ StoredTriple(lastRun.before) # StoredTriple(ext["c1"])


\* C30: a connection stays in the in-flight set from the start of each of
\* its processings until the grace delay after that processing has elapsed:
\* while a grace timer of the connection is pending, also that of a later,
\* forced processing, the connection is marked
C30_MarkedThroughGrace ==
  \A i \in 1..Len(graceTimers) : graceTimers[i].conn \in processingConnections


(***************************************************************************)
(* The host's timer table under scheduleUpdate.  probe.timers are the      *)
(* pending setTimeout callbacks that call processConnection, each with its *)
(* id, its closure (connection, forceUpdate) and the time left;            *)
(* probe.handle is this._updateTimeout (0 for null; it keeps the id of a   *)
(* timer that has fired); probe.note describes the latest scheduleUpdate   *)
(* call.  graceTimers holds the pending release callbacks with their time  *)
(* left.  Time advances in steps of 50 ms, and a due callback runs before  *)
(* time advances further.                                                  *)
(***************************************************************************)
DEBOUNCE_MS == 50
GRACE_MS == 100
MaxPending == 3

HostTimer(id, conn, force) ==
  [id |-> id, conn |-> conn, force |-> force, left |-> DEBOUNCE_MS]

TimerIds(timers) == {timers[i].id : i \in 1..Len(timers)}

\* the id setTimeout returns: one no pending timer has and the handle does not hold
FreshId(timers, handle) ==
  CHOOSE n \in 1..(Len(timers) + 2) :
    /\ n \notin TimerIds(timers) \cup {handle}
    /\ \A m \in 1..(n - 1) : m \in TimerIds(timers) \cup {handle}

RECURSIVE clearTimeout(_, _)
clearTimeout(timers, id) ==
  IF timers = <<>> THEN <<>>
  ELSE IF Head(timers).id = id THEN clearTimeout(Tail(timers), id)
  ELSE <<Head(timers)>> \o clearTimeout(Tail(timers), id)

Host(timers, handle) == [timers |-> timers, handle |-> handle]

\* variant: the pending timer is left running
scheduleUpdateHost_noClear(conn, force, host, proc) ==
  IF conn = NoElem THEN host
  ELSE IF conn \in proc /\ ~force THEN host
  ELSE Host(Append(host.timers,
                   HostTimer(FreshId(host.timers, host.handle), conn, force)),
            FreshId(host.timers, host.handle))

scheduleUpdateHost(conn, force, host, proc) ==
  IF conn = NoElem THEN host
  ELSE IF conn \in proc /\ ~force THEN host
  ELSE LET kept == IF host.handle # 0 THEN clearTimeout(host.timers, host.handle)
                   ELSE host.timers
       IN Host(Append(kept, HostTimer(FreshId(host.timers, host.handle), conn, force)),
               FreshId(host.timers, host.handle))

NoNote == [conn |-> NoElem, force |-> FALSE, inFlight |-> FALSE,
           before |-> <<>>, handleBefore |-> 0]
Note(conn, force, host, proc) ==
  [conn |-> conn, force |-> force, inFlight |-> conn \in proc,
   before |-> host.timers, handleBefore |-> host.handle]

TheHost == Host(probe.timers, probe.handle)
Observed(host, note) == [timers |-> host.timers, handle |-> host.handle, note |-> note]

InitHost ==
  /\ ext = [e \in Tasks \cup Conns |-> NoExt]
  /\ source = [c \in Conns |-> "t1"]
  /\ target = [c \in Conns |-> "t2"]
  /\ live = Conns
  /\ outgoing = [t \in Tasks |-> IF t = "t1" THEN <<"c1", "c2">> ELSE <<>>]
  /\ incoming = [t \in Tasks |-> IF t = "t2" THEN <<"c1", "c2">> ELSE <<>>]
  /\ updateTimeout = NoTimer
  /\ processingConnections = {}
  /\ graceTimers = <<>>
  /\ lastRun = NoRun
  /\ burst = NoBurst
  /\ probe = Observed(Host(<<>>, 0), NoNote)

HostFrame ==
  UNCHANGED <<source, target, incoming, outgoing, live, updateTimeout, lastRun, burst>>

\* connection.added for a message flow
HostAdded(c) ==
  /\ Len(probe.timers) < MaxPending
  /\ probe' = Observed(scheduleUpdateHost(c, FALSE, TheHost, processingConnections),
                       Note(c, FALSE, TheHost, processingConnections))
  /\ HostFrame
  /\ UNCHANGED <<ext, processingConnections, graceTimers>>

\* commandStack.connection.reconnect.executed for a message flow
HostReconnected(c) ==
  /\ Len(probe.timers) < MaxPending
  /\ probe' = Observed(scheduleUpdateHost(c, TRUE, TheHost, processingConnections),
                       Note(c, TRUE, TheHost, processingConnections))
  /\ HostFrame
  /\ UNCHANGED <<ext, processingConnections, graceTimers>>

\* import.done: scheduleUpdate for c1, then for c2
HostImported ==
  /\ Len(probe.timers) < MaxPending - 1
  /\ LET h1 == scheduleUpdateHost("c1", FALSE, TheHost, processingConnections)
     IN probe' = Observed(scheduleUpdateHost("c2", FALSE, h1, processingConnections),
                          Note("c2", FALSE, h1, processingConnections))
  /\ HostFrame
  /\ UNCHANGED <<ext, processingConnections, graceTimers>>

\* a due debounce callback runs processConnection
HostDebounceDue(i) ==
  /\ i \in 1..Len(probe.timers)
  /\ probe.timers[i].left = 0
  /\ LET c == probe.timers[i].conn
         out == processConnectionOutcome(c, probe.timers[i].force, ext)
     IN /\ ext' = [ext EXCEPT ![c] = out.bo]
        /\ processingConnections' = processingConnections \cup {c}
        /\ graceTimers' = Append(graceTimers, [conn |-> c, left |-> GRACE_MS])
        /\ probe' = Observed(Host(clearTimeout(probe.timers, probe.timers[i].id),
                                  probe.handle), NoNote)
  /\ HostFrame

\* a due release callback deletes the connection id
HostGraceDue ==
  /\ graceTimers # <<>>
  /\ Head(graceTimers).left = 0
  /\ processingConnections' = processingConnections \ {Head(graceTimers).conn}
  /\ graceTimers' = Tail(graceTimers)
  /\ probe' = [probe EXCEPT !.note = NoNote]
  /\ HostFrame
  /\ UNCHANGED ext

\* 50 ms pass
HostTick ==
  /\ probe.timers # <<>> \/ graceTimers # <<>>
  /\ \A i \in 1..Len(probe.timers) : probe.timers[i].left > 0
  /\ \A i \in 1..Len(graceTimers) : graceTimers[i].left > 0
  /\ probe' = [probe EXCEPT !.note = NoNote,
                            !.timers = [i \in 1..Len(probe.timers) |->
                                          [probe.timers[i] EXCEPT !.left = @ - 50]]]
  /\ graceTimers' = [i \in 1..Len(graceTimers) |->
                       [graceTimers[i] EXCEPT !.left = @ - 50]]
  /\ HostFrame
  /\ UNCHANGED <<ext, processingConnections>>

NextHost ==
  \/ \E c \in Conns : HostAdded(c)
  \/ \E c \in Conns : HostReconnected(c)
  \/ HostImported
  \/ \E i \in 1..MaxPending : HostDebounceDue(i)
  \/ HostGraceDue
  \/ HostTick

SpecHost == InitHost /\ [][NextHost]_vars

\* ---- vocabulary ----
Notified == probe.note.conn # NoElem
Dropped == Notified /\ probe.note.inFlight /\ ~probe.note.force
Accepted == Notified /\ ~Dropped

\* C31: at most one debounce timer is pending; an accepted notification
\* leaves exactly one pending timer, a new one for its connection with the
\* full 50 ms left, whatever was pending before; a dropped notification leaves
\* the pending timers and the handle as they were
C31_OneDebounceTimer ==
  /\ Len(probe.timers) <= 1
  /\ Accepted =>
       /\ Len(probe.timers) = 1
       /\ probe.timers[1].conn = probe.note.conn
       /\ probe.timers[1].force = probe.note.force
       /\ probe.timers[1].left = DEBOUNCE_MS
       /\ probe.timers[1].id = probe.handle
       /\ probe.timers[1].id \notin TimerIds(probe.note.before)
  /\ Dropped =>
       /\ probe.timers = probe.note.before
       /\ probe.handle = probe.note.handleBefore

\* an accepted notification cancelled the pending timer of another connection
C31_Witness ==
  /\ Accepted
  /\ Len(probe.note.before) = 1
  /\ probe.note.before[1].conn # probe.note.conn
  /\ Len(probe.timers) = 1


\* C32: every change a processing makes to a message flow's stored entries
\* goes through an update of the Model Mutator: a processing, forced or not,
\* that leaves the flow's entries different from before has issued an update
C32_ChangesThroughMutator ==
  \A c \in Conns :
    (Ran(c) /\ ext[c] # lastRun.before) => lastRun.writes > 0


(***************************************************************************)
(* The two graph searches of the ValidationService, one loop iteration per *)
(* step.  probe holds the locals of the call: the pool, the stack, the     *)
(* visited set, the result list, and the nodes whose flows have been read, *)
(* in order.  Flow f8 is a self-loop on B.                                 *)
(***************************************************************************)
MaxExpand == 8

SFlowOrder == VFlowOrder \o <<"f8">>
SFlows == Range(SFlowOrder)
SFixedFlows == {"f4", "f5", "m1"}

\* variant: the visited set is not consulted
alreadyVisited_never(node, visited) == FALSE

alreadyVisited(node, visited) == node \in visited

Locals(start, dir, pool) ==
  [start |-> start, dir |-> dir, pool |-> pool,
   stack |-> IF pool = Null THEN <<>> ELSE <<start>>,
   visited |-> {}, result |-> <<>>, expanded |-> <<>>]

InitSearch ==
  /\ \E ka \in {"", BINDING}, kc \in {"", UNBINDING} :
       ext = [n \in VNodes |->
                CASE n = "A" -> TaskBo(ka) [] n = "C" -> TaskBo(kc)
                  [] n = "B" -> TaskBo(BINDING) [] n = "M" -> TaskBo(UNBINDING)
                  [] OTHER -> NoExt]
  /\ source = [f \in SFlows |-> VSource(f)]
  /\ target = [f \in SFlows |-> VTarget(f)]
  /\ \E l \in SUBSET (SFlows \ SFixedFlows) :
       /\ live = l \cup SFixedFlows
       /\ incoming = [n \in VNodes |->
            LiveFlows(SelectSeq(SFlowOrder, LAMBDA f : VTarget(f) = n), l \cup SFixedFlows)]
       /\ outgoing = [n \in VNodes |->
            LiveFlows(SelectSeq(SFlowOrder, LAMBDA f : VSource(f) = n), l \cup SFixedFlows)]
  /\ updateTimeout = NoTimer
  /\ processingConnections = {}
  /\ graceTimers = <<>>
  /\ lastRun = NoRun
  /\ burst = NoBurst
  /\ \E t \in VTasks, dir \in {"up", "down"} :
       probe = Locals(t, dir, getContainingParticipant(t))

SearchFrame ==
  UNCHANGED <<ext, source, target, incoming, outgoing, live, updateTimeout,
              processingConnections, graceTimers, lastRun, burst>>

\* stack.pop() yields a node already visited: continue
SkipVisited ==
  /\ probe.stack # <<>>
  /\ alreadyVisited(probe.stack[Len(probe.stack)], probe.visited)
  /\ probe' = [probe EXCEPT !.stack = SubSeq(@, 1, Len(@) - 1)]
  /\ SearchFrame

\* stack.pop() yields a new node: mark it and scan its flows
Expand ==
  /\ probe.stack # <<>>
  /\ ~alreadyVisited(probe.stack[Len(probe.stack)], probe.visited)
  /\ Len(probe.expanded) < MaxExpand
  /\ LET node == probe.stack[Len(probe.stack)]
         pushed == IF probe.dir = "up" THEN SourcesIn(incoming[node], probe.pool)
                   ELSE TargetsIn(outgoing[node], probe.pool)
         found == IF probe.dir = "up" THEN BindingOnes(pushed) ELSE UnbindingOnes(pushed)
     IN probe' = [probe EXCEPT
                    !.stack = SubSeq(@, 1, Len(@) - 1) \o pushed,
                    !.visited = @ \cup {node},
                    !.result = @ \o found,
                    !.expanded = Append(@, node)]
  /\ SearchFrame

NextSearch == SkipVisited \/ Expand

SpecSearch == InitSearch /\ [][NextSearch]_vars /\ WF_vars(NextSearch)

\* ---- vocabulary ----
Returned == probe.stack = <<>>
NoRepeats(s) == \A i, j \in 1..Len(s) : s[i] = s[j] => i = j
OnCycle(n) == n \in (IF probe.dir = "up" THEN Upstream(n) ELSE Downstream(n))

\* C33: both searches return on every graph, also with cycles and
\* self-loops, and read the flows of each node at most once
C33_SearchTerminates ==
  /\ []NoRepeats(probe.expanded)
  /\ <>Returned

\* a search returned after going round a cycle and over the self-loop
C33_Witness ==
  /\ Returned
  /\ OnCycle(probe.start)
  /\ "f8" \in live
  /\ "B" \in Range(probe.expanded)
  /\ Len(probe.expanded) >= 3

\* C39: the list a search returns holds each task at most once, also when
\* a matching task has several flows into the traversed region
C39_ResultWithoutRepeats ==
  Returned => NoRepeats(probe.result)


\* C34: with a single message flow, a kind change of an endpoint task made
\* while the flow is in flight is not lost: once the mark is released and no
\* timer is pending, the stored classification is the one the endpoints'
\* kinds call for (the endpoints' pools being found)
C34_ChangeInFlightNotLost ==
  (live = {"c1"} /\ Settled /\ Resolvable("c1"))
    => getStoredType(ext["c1"]) = Desired("c1")


\* C35: a forced reconciliation pending for a message flow is still carried
\* out, in forced mode and for that flow, when a non-forced notification (for
\* it or for another flow) is accepted before the timer fires: an accepted
\* non-forced notification leaves a pending forced timer as it was
C35_ForcedSurvives ==
  [][\A c \in Conns :
       (updateTimeout = [conn |-> c, force |-> TRUE]
          /\ source' = source /\ target' = target
          /\ updateTimeout' # NoTimer)
         => updateTimeout' = updateTimeout]_vars


(***************************************************************************)
(* Release of the in-flight mark.  The Model Mutator may reject the writes *)
(* of a processing (probe tells how the latest rejected one ended); the    *)
(* flow c1 is reconnected between t2 and t3 to be processed again.  The    *)
(* host runs a due release callback: weak fairness of GraceFire.           *)
(***************************************************************************)
\* variant: the release timer is set after the try block, not in a finally block
releaseAfter_noFinally(timers, c, how) ==
  IF how = "thrown" THEN timers
  ELSE Append([i \in 1..Len(timers) |-> [timers[i] EXCEPT !.age = 1]],
              [conn |-> c, age |-> 0])

\* the finally block of processConnection: a 100 ms timer, however the try
\* block ended
releaseAfter(timers, c, how) ==
  Append([i \in 1..Len(timers) |-> [timers[i] EXCEPT !.age = 1]],
         [conn |-> c, age |-> 0])

\* the debounce timer fires while the Model Mutator rejects writes
DebounceFireThrowing ==
  /\ updateTimeout # NoTimer
  /\ \A i \in 1..Len(graceTimers) : graceTimers[i].age = 0
  /\ LET c == updateTimeout.conn
         out == processConnectionRejected(c, updateTimeout.force, ext)
     IN /\ ext' = [ext EXCEPT ![c] = out.bo]
        /\ processingConnections' = processingConnections \cup {c}
        /\ graceTimers' = releaseAfter(graceTimers, c, out.how)
        /\ lastRun' = [conn |-> c, forced |-> updateTimeout.force, before |-> ext[c],
                       writes |-> 0, wasInFlight |-> c \in processingConnections]
        /\ probe' = out.how
  /\ updateTimeout' = NoTimer
  /\ diagramUnchanged
  /\ UNCHANGED burst

\* the debounce timer fires while the Model Mutator accepts writes
DebounceFireAccepting ==
  /\ updateTimeout # NoTimer
  /\ \A i \in 1..Len(graceTimers) : graceTimers[i].age = 0
  /\ LET c == updateTimeout.conn
         out == processConnectionOutcome(c, updateTimeout.force, ext)
     IN /\ ext' = [ext EXCEPT ![c] = out.bo]
        /\ processingConnections' = processingConnections \cup {c}
        /\ updateTimeout' = notifyWrites(out.writes, c, NoTimer,
                                         processingConnections \cup {c}, incoming, outgoing)
        /\ graceTimers' = releaseAfter(graceTimers, c, "returned")
        /\ lastRun' = [conn |-> c, forced |-> updateTimeout.force, before |-> ext[c],
                       writes |-> out.writes, wasInFlight |-> c \in processingConnections]
  /\ diagramUnchanged
  /\ UNCHANGED <<burst, probe>>

NextRelease ==
  \/ DebounceFireThrowing
  \/ DebounceFireAccepting
  \/ \E n \in {"t2", "t3"} : ReconnectTarget("c1", n)
  \/ \E c \in Conns : ReconnectSource(c, "t2")
  \/ GraceFire

SpecRelease == InitRejected /\ [][NextRelease]_vars /\ WF_vars(GraceFire)

\* C36: every connection added to the in-flight set is removed from it
\* again once the release timers fire, also when its processing threw
C36_MarkReleased ==
  \A c \in Conns : (c \in processingConnections) ~> (c \notin processingConnections)

\* the processing of c1 threw, and c1 has left the in-flight set
C36_Witness ==
  /\ probe = "thrown"
  /\ lastRun = NoRun
  /\ "c1" \notin processingConnections
  /\ graceTimers = <<>>


(***************************************************************************)
(* One processing of a message flow that carries other entries.  The flow  *)
(* c1 starts with up to MaxFlowEntries entries, classification entries and *)
(* entries of other vocabularies in any order; c2 carries a documentation  *)
(* entry.                                                                  *)
(***************************************************************************)
MaxFlowEntries == 3

FlowEntries ==
  {Entry("other:Doc", "d"), Entry("other:Doc", "e"), Entry(TYPE, BINDING),
   Entry(PARTICIPANT1, "P1"), Entry(PARTICIPANT2, "P2")}

FlowObjects ==
  {NoExt} \cup {[present |-> TRUE, values |-> v] :
                  v \in UNION {[1..k -> FlowEntries] : k \in 0..MaxFlowEntries}}

InitFrame ==
  /\ \E b1 \in {"", BINDING, UNBINDING}, b2 \in {"", BINDING}, bo \in FlowObjects :
       ext = [e \in Tasks \cup Conns |->
                CASE e = "t1" -> TaskBo(b1)
                  [] e = "t2" -> TaskBo(b2)
                  [] e = "t3" -> TaskBo("Binding")
                  [] e = "c1" -> bo
                  [] e = "c2" -> [present |-> TRUE, values |-> <<Entry("other:Doc", "d")>>]
                  [] OTHER -> NoExt]
  /\ source = [c \in Conns |-> "t1"]
  /\ \E t \in {"t2", "t3"} : target = [c \in Conns |-> IF c = "c1" THEN t ELSE "t2"]
  /\ live = Conns
  /\ outgoing = [t \in Tasks |-> IF t = "t1" THEN <<"c1", "c2">> ELSE <<>>]
  /\ incoming = [t \in Tasks |-> IF t = target["c1"] THEN <<"c1">> ELSE <<>>]
  /\ \E f \in BOOLEAN : updateTimeout = [conn |-> "c1", force |-> f]
  /\ processingConnections = {}
  /\ graceTimers = <<>>
  /\ lastRun = NoRun
  /\ burst = NoBurst
  /\ probe = "unset"

NextFrame == DebounceFire \/ GraceFire

SpecFrame == InitFrame /\ [][NextFrame]_vars

\* the entries that are not classification entries, in their order
OtherEntries(bo) ==
  SelectSeq(getExtensionValues(bo),
            LAMBDA v : v.type \notin {TYPE, PARTICIPANT1, PARTICIPANT2})

\* C37: a processing of a message flow, forced or not, changes nothing but
\* the three classification entries of that flow: its other entries keep
\* their values and order, and the tasks, the other flows and the ends of
\* the flows stay as they were
C37_ReconcileFrame ==
  [][lastRun'.conn # NoElem =>
       /\ OtherEntries(ext'[lastRun'.conn]) = OtherEntries(ext[lastRun'.conn])
       /\ \A e \in Tasks \cup Conns : e # lastRun'.conn => ext'[e] = ext[e]
       /\ source' = source /\ target' = target]_vars

\* a processing rewrote the classification of a flow that holds two other
\* entries around a stored type
C37_Witness ==
  /\ Ran("c1")
  /\ lastRun.writes = 1
  /\ Len(lastRun.before.values) = 3
  /\ lastRun.before.values[2].type = TYPE
  /\ Len(OtherEntries(lastRun.before)) = 2
  /\ OtherEntries(ext["c1"]) = OtherEntries(lastRun.before)
  /\ HasAllThree(ext["c1"])


(***************************************************************************)
(* Kind changes on a task that carries assignments: the assignment         *)
(* operations, and setTaskType with each of the three kinds.               *)
(***************************************************************************)
NextAssignKinds ==
  \/ \E c \in Conditions, v \in ReachedValues : AddAssignment(c, v)
  \/ \E i \in 0..MaxAssign : RemoveAssignment(i)
  \/ \E key \in TASK_TYPE_KEYS : TaskSetType(key)
  \/ TaskClearType

SpecAssignKinds == InitTask /\ [][NextAssignKinds]_vars

\* C38: setTaskType with one of the three kinds leaves the list of
\* (condition, value) pairs getAssignments returns as it was, whatever kind
\* the task had before
C38_KindChangeKeepsAssignments ==
  (probe.op = "setTaskType" /\ probe.key \in TASK_TYPE_KEYS)
    => getAssignments(TheTask) = getAssignments(probe.before)

\* a task with two assignments changed its kind
C38_Witness ==
  /\ probe.op = "setTaskType"
  /\ probe.key = UNBINDING
  /\ getCurrentType(probe.before) = MOVEMENT
  /\ getCurrentType(TheTask) = UNBINDING
  /\ Len(getAssignments(probe.before)) = 2
  /\ getAssignments(TheTask) = getAssignments(probe.before)

====
